---- MODULE Spec2Model ----
(***************************************************************************)
(* The audiobook assembly pipeline of icewall905/audiobooker.              *)
(*                                                                         *)
(*   app.py            create_audiobook   (local model, both topologies)   *)
(*   web_interface.py  process_audiobook  (single buffer, no encoder)      *)
(*   app_remote.py     create_audiobook   (remote server, chunks only)     *)
(*                                                                         *)
(* One behaviour is one run of one of the three programs.  A tensor is     *)
(* modelled as the sequence of the segments it was concatenated from; a    *)
(* segment carries its provenance (title / chunk / pause, Section index,   *)
(* Chunk number) and its number of samples, so torch.cat is sequence       *)
(* concatenation and len(tensor) is the sum of the segments' samples.      *)
(* A Section's text is abstracted to what the pipeline reads of it: the    *)
(* title flag and the number of Chunks smart_text_split returns for it.    *)
(* chapter_pause is a float number of seconds in the code; here it is an   *)
(* integer number of milliseconds.                                         *)
(*                                                                         *)
(* The two text functions of app.py are operators on texts, a text being   *)
(* a sequence of characters: smart_text_split and detect_chapters, with    *)
(* the regular expressions they use.  SplitSpec and DetectSpec call them   *)
(* on every text of a bounded set; DocSpec runs create_audiobook on a      *)
(* document, its Sections and Chunks computed by the two functions;       *)
(* MainSpec starts one step earlier, at main with its command line, and    *)
(* goes through validate_inputs, the model load and the document read.     *)
(* ClientSpec is one call of the remote client's generate_audio: the       *)
(* POST, the status polls and the download, each with the answers the      *)
(* server can give; ClientFairSpec adds that every request ends.           *)
(***************************************************************************)
EXTENDS Integers, Sequences, FiniteSets, TLC

\* ------------------------------------------------------------- bounds
MaxSections == 3
MaxChunks == 2

\* ---------------------------------------------------- program constants
\* The sample rate of the narrator's audio (model.sr), in Hz.
sr == 24000

\* MAX_CHUNK_LENGTH of app.py.
MAX_CHUNK_LENGTH == 300

\* chapter_pause values tried, in milliseconds (0 s, 1.0 s, 1.5 s).
ChapterPauseValues == {0, 1000, 1500}

\* What a Narrator call can do: raise, or return a wav.
NarratorOutcomes == {"fail", "wav"}

\* What the Encoder (ffmpeg) can do.
EncoderOutcomes == {"ok", "unavailable", "failure"}

Programs == {"app", "web", "remote"}

\* ------------------------------------------------------------ helpers
\* torch.cat / np.concatenate of a list of tensors.
RECURSIVE Cat(_)
Cat(list) == IF list = <<>> THEN <<>> ELSE Head(list) \o Cat(Tail(list))

\* len(tensor): the number of samples.
RECURSIVE Samples(_)
Samples(t) == IF t = <<>> THEN 0 ELSE Head(t).n + Samples(Tail(t))

\* int(chapter_pause * model.sr), chapter_pause in milliseconds.
pause_samples(cp) == (cp * sr) \div 1000

\* torch.zeros(pause_samples): the Pause before or after the title of sec.
pause_audio(where, sec, cp) ==
    << [kind |-> where, sec |-> sec, chk |-> 0, n |-> pause_samples(cp)] >>

\* wav.squeeze(0).cpu() of a successful Narrator call.  The Narrator is
\* opaque; the audio of a text is taken to be a positive number of
\* samples that differs from unit to unit.
wav_audio(kind, sec, chk) ==
    << [kind |-> kind, sec |-> sec, chk |-> chk, n |-> sec + chk + 1] >>

\* os.path.join(output_dir, f"chapter{k}.wav") and its .mp3 sibling.
chapter_filename(k) == [stem |-> "chapter", k |-> k, ext |-> "wav"]
chapter_mp3_filename(k) == [stem |-> "chapter", k |-> k, ext |-> "mp3"]

\* output_path (ending in .wav) and output_path.replace('.wav', '.mp3').
output_path == [stem |-> "output", k |-> 0, ext |-> "wav"]
output_mp3 == [stem |-> "output", k |-> 0, ext |-> "mp3"]

\* ta.save(path, audio): create or overwrite the file.
ta_save(d, path, audio) ==
    {f \in d : f.name # path} \cup {[name |-> path, audio |-> audio]}

\* os.remove(path).
os_remove(d, path) == {f \in d : f.name # path}

\* convert_to_mp3's return value for an Encoder outcome.
convert_to_mp3(enc) == enc = "ok"

\* The disk after convert_to_mp3(input, output): ffmpeg -y writes the
\* output file on success and nothing otherwise.
ffmpeg_disk(d, input, output, enc) ==
    IF convert_to_mp3(enc)
    THEN ta_save(d, output, (CHOOSE f \in d : f.name = input).audio)
    ELSE d

\* sum(stat['duration'] for stat in chapter_stats), in samples.
RECURSIVE total_duration(_)
total_duration(stats) ==
    IF stats = <<>> THEN 0
    ELSE Head(stats).duration + total_duration(Tail(stats))

\* ------------------------------------------------------------- inputs
TitleSection == [is_chapter_title |-> TRUE, n_chunks |-> 0]
ContentSection(n) == [is_chapter_title |-> FALSE, n_chunks |-> n]

SectionRecords ==
    {TitleSection} \cup {ContentSection(n) : n \in 1..MaxChunks}

\* What detect_chapters can return: a lone content Section (no title
\* line; its text may be empty, giving no Chunk), or titles each followed
\* by at most one non-empty content Section, with at most one content
\* Section before the first title.
DetectedSections ==
    {<<ContentSection(0)>>} \cup
    {s \in UNION {[1..n -> SectionRecords] : n \in 1..MaxSections} :
        \A i \in 1..(Len(s) - 1) :
            s[i].is_chapter_title \/ s[i + 1].is_chapter_title}

\* --------------------------------------------------------------- text
\* A text is a sequence of characters.  The characters tried are a
\* letter, a sentence terminator, a space and a newline; the texts tried
\* are all the texts of at most MaxTextLen characters, and the
\* max_length values tried are 1..MaxLength.
MaxTextLen == 6
MaxLength == 4

Alphabet == {"a", ".", " ", "\n"}
Texts == UNION {[1..n -> Alphabet] : n \in 0..MaxTextLen}

\* \s of the regular expressions, and what str.strip() removes.
Whitespace == {" ", "\n", "\t"}
IsSpace(c) == c \in Whitespace

\* [.!?] of the sentence pattern.
SentenceEnd == {".", "!", "?"}

Max(S) == CHOOSE x \in S : \A y \in S : y <= x
Min(S) == CHOOSE x \in S : \A y \in S : x <= y

\* str.strip().
strip(s) ==
    LET keep == {i \in 1..Len(s) : ~IsSpace(s[i])}
    IN IF keep = {} THEN <<>> ELSE SubSeq(s, Min(keep), Max(keep))

\* ------------------------------------- app.py: smart_text_split
\* Where the match of \n\s*\n that starts at position i ends, 0 if there
\* is none: \s* is greedy, so the match runs to the last newline of the
\* whitespace run that starts at i.
paragraph_break_end(t, i) ==
    IF t[i] # "\n" THEN 0
    ELSE LET ends == {j \in (i + 1)..Len(t) :
                          /\ t[j] = "\n"
                          /\ \A k \in (i + 1)..j : IsSpace(t[k])}
         IN IF ends = {} THEN 0 ELSE Max(ends)

\* re.split(r'\n\s*\n', text): the pieces between the matches, scanning
\* from position i with the current piece starting at start.
RECURSIVE split_paragraphs(_, _, _)
split_paragraphs(t, start, i) ==
    IF i > Len(t) THEN << SubSeq(t, start, Len(t)) >>
    ELSE LET e == paragraph_break_end(t, i)
         IN IF e = 0 THEN split_paragraphs(t, start, i + 1)
            ELSE << SubSeq(t, start, i - 1) >>
                     \o split_paragraphs(t, e + 1, e + 1)

\* Where the match of (?<=[.!?])\s+ that starts at position i ends, 0 if
\* there is none.
sentence_break_end(p, i) ==
    IF i > 1 /\ IsSpace(p[i]) /\ p[i - 1] \in SentenceEnd
    THEN Max({j \in i..Len(p) : \A k \in i..j : IsSpace(p[k])})
    ELSE 0

\* re.split(r'(?<=[.!?])\s+', paragraph).
RECURSIVE split_sentences(_, _, _)
split_sentences(p, start, i) ==
    IF i > Len(p) THEN << SubSeq(p, start, Len(p)) >>
    ELSE LET e == sentence_break_end(p, i)
         IN IF e = 0 THEN split_sentences(p, start, i + 1)
            ELSE << SubSeq(p, start, i - 1) >>
                     \o split_sentences(p, e + 1, e + 1)

\* Bug: an empty paragraph is not skipped.
paragraph_skipped_never(paragraph) == FALSE

\* if not paragraph: continue
paragraph_skipped(paragraph) == paragraph = <<>>

\* Bug: every paragraph is taken as one Chunk.
paragraph_fits_always(paragraph, max_length) == TRUE

\* len(paragraph) <= max_length
paragraph_fits(paragraph, max_length) == Len(paragraph) <= max_length

\* Bug: the Chunk is closed at every sentence.
chunk_full_always(current_chunk, sentence, max_length) ==
    current_chunk # <<>>

\* Bug: the joining space is not counted.
chunk_full_no_space(current_chunk, sentence, max_length) ==
    current_chunk # <<>>
        /\ Len(current_chunk \o sentence) > max_length

\* current_chunk and len(current_chunk + " " + sentence) > max_length
chunk_full(current_chunk, sentence, max_length) ==
    current_chunk # <<>>
        /\ Len(current_chunk \o <<" ">> \o sentence) > max_length

\* current_chunk + " " + sentence if current_chunk else sentence
chunk_extended(current_chunk, sentence) ==
    IF current_chunk # <<>> THEN current_chunk \o <<" ">> \o sentence
    ELSE sentence

\* Bug: what is left in current_chunk after the last sentence is lost.
last_chunk_dropped(current_chunk) == <<>>

\* if current_chunk.strip(): chunks.append(current_chunk.strip())
last_chunk(current_chunk) ==
    IF strip(current_chunk) # <<>> THEN << strip(current_chunk) >> ELSE <<>>

\* The loop over the sentences of a paragraph longer than max_length.
RECURSIVE pack_sentences(_, _, _)
pack_sentences(sentences, current_chunk, max_length) ==
    IF sentences = <<>> THEN last_chunk(current_chunk)
    ELSE LET sentence == Head(sentences)
         IN IF chunk_full(current_chunk, sentence, max_length)
            THEN << strip(current_chunk) >>
                     \o pack_sentences(Tail(sentences), sentence, max_length)
            ELSE pack_sentences(Tail(sentences),
                                chunk_extended(current_chunk, sentence),
                                max_length)

\* The Chunks of one stripped paragraph.
paragraph_chunks(paragraph, max_length) ==
    IF paragraph_skipped(paragraph) THEN <<>>
    ELSE IF paragraph_fits(paragraph, max_length) THEN << paragraph >>
    ELSE pack_sentences(split_sentences(paragraph, 1, 1), <<>>, max_length)

\* The loop over the paragraphs.
RECURSIVE chunks_of(_, _)
chunks_of(paragraphs, max_length) ==
    IF paragraphs = <<>> THEN <<>>
    ELSE paragraph_chunks(strip(Head(paragraphs)), max_length)
             \o chunks_of(Tail(paragraphs), max_length)

smart_text_split(text, max_length) ==
    chunks_of(split_paragraphs(text, 1, 1), max_length)

\* ------------------------------------------- app.py: detect_chapters
\* A document is a text put together from at most MaxDocTokens pieces: a
\* line that starts a chapter, the start of a numbered heading, a letter,
\* a space and a newline.
MaxDocTokens == 6

DocTokens ==
    { <<"C", "h", "a", "p", "t", "e", "r", " ", "1">>,
      <<"1", ".">>, <<"a">>, <<" ">>, <<"\n">> }

\* 'Chapter 1\nText A\n\nChapter 2\nText B', with a one-letter text.
ExampleDocument ==
    <<"C", "h", "a", "p", "t", "e", "r", " ", "1", "\n", "A", "\n", "\n",
      "C", "h", "a", "p", "t", "e", "r", " ", "2", "\n", "B">>

Documents ==
    {ExampleDocument} \cup
    {Cat(d) : d \in UNION {[1..n -> DocTokens] : n \in 0..MaxDocTokens}}

Digits == {"0", "1", "2", "3", "4", "5", "6", "7", "8", "9"}
UpperCase ==
    <<"A", "B", "C", "D", "E", "F", "G", "H", "I", "J", "K", "L", "M",
      "N", "O", "P", "Q", "R", "S", "T", "U", "V", "W", "X", "Y", "Z">>
LowerCase ==
    <<"a", "b", "c", "d", "e", "f", "g", "h", "i", "j", "k", "l", "m",
      "n", "o", "p", "q", "r", "s", "t", "u", "v", "w", "x", "y", "z">>

\* re.IGNORECASE: the characters a character of a pattern matches.
IgnoreCase(c) ==
    {c} \cup {LowerCase[i] : i \in {j \in DOMAIN UpperCase : UpperCase[j] = c}}
        \cup {UpperCase[i] : i \in {j \in DOMAIN LowerCase : LowerCase[j] = c}}

\* The items of a pattern: one character of a class, or a class repeated.
One(class) == << [class |-> class, rep |-> "1"] >>
Star(class) == << [class |-> class, rep |-> "*"] >>
Plus(class) == << [class |-> class, rep |-> "+"] >>
Word(w) == Cat([i \in DOMAIN w |-> One(IgnoreCase(w[i]))])

\* [A-Z] under re.IGNORECASE.
AnyLetter == UNION {IgnoreCase(UpperCase[i]) : i \in DOMAIN UpperCase}

\* ^\s*<word>\s+\d+
numbered(word) ==
    Star(Whitespace) \o Word(word) \o Plus(Whitespace) \o Plus(Digits)

chapter_patterns ==
    << numbered(<<"C", "h", "a", "p", "t", "e", "r">>),
       numbered(<<"C", "H", "A", "P", "T", "E", "R">>),
       Star(Whitespace) \o Word(<<"C", "h">>) \o One({"."})
           \o Star(Whitespace) \o Plus(Digits),
       Star(Whitespace) \o Plus(Digits) \o One({"."})
           \o Star(Whitespace) \o One(AnyLetter),
       numbered(<<"P", "a", "r", "t">>),
       numbered(<<"P", "A", "R", "T">>),
       numbered(<<"S", "e", "c", "t", "i", "o", "n">>),
       numbered(<<"B", "o", "o", "k">>) >>

\* re.match(pattern, s): the pattern matches s from position i on.
RECURSIVE re_match(_, _, _)
re_match(pattern, s, i) ==
    IF pattern = <<>> THEN TRUE
    ELSE LET item == Head(pattern)
             run == {j \in i..(Len(s) + 1) :
                        \A k \in i..(j - 1) : s[k] \in item.class}
         IN IF item.rep = "1"
            THEN i <= Len(s) /\ s[i] \in item.class
                     /\ re_match(Tail(pattern), s, i + 1)
            ELSE \E j \in run :
                     /\ item.rep = "+" => j > i
                     /\ re_match(Tail(pattern), s, j)

\* text.split('\n').
RECURSIVE split_lines(_, _, _)
split_lines(t, start, i) ==
    IF i > Len(t) THEN << SubSeq(t, start, Len(t)) >>
    ELSE IF t[i] = "\n"
    THEN << SubSeq(t, start, i - 1) >> \o split_lines(t, i + 1, i + 1)
    ELSE split_lines(t, start, i + 1)

\* '\n'.join(lines[a:b]), a and b counted from 0.
RECURSIVE join_lines(_, _, _)
join_lines(lines, a, b) ==
    IF a >= b THEN <<>>
    ELSE IF a + 1 = b THEN lines[a + 1]
    ELSE lines[a + 1] \o <<"\n">> \o join_lines(lines, a + 1, b)

\* The inner loop's test: some pattern matches the trimmed line.
is_chapter_line(line) ==
    \E p \in DOMAIN chapter_patterns :
        re_match(chapter_patterns[p], strip(line), 1)

\* The patterns of the list that match the trimmed line.
matching_patterns(line) ==
    {p \in DOMAIN chapter_patterns :
         re_match(chapter_patterns[p], strip(line), 1)}

\* Bug: no break, the line is recorded once for every pattern it matches.
appending_patterns_no_break(line) == matching_patterns(line)

\* The patterns at which the inner loop appends the line's index: the
\* first one that matches, the break leaving the later ones untried.
appending_patterns(line) ==
    IF matching_patterns(line) = {} THEN {}
    ELSE {Min(matching_patterns(line))}

\* chapter_indices as the outer loop leaves it: the indices appended,
\* counted from 0, in the order of the lines.
chapter_indices(lines) ==
    Cat([i \in 1..Len(lines) |->
            [k \in 1..Cardinality(appending_patterns(lines[i])) |-> i - 1]])

\* {'text': ..., 'is_chapter_title': ...}
Section(t, flag) == [text |-> t, is_chapter_title |-> flag]

\* Bug: the text of the lone Section is trimmed.
whole_document_trimmed(t) == << Section(strip(t), FALSE) >>

\* return [{'text': text, 'is_chapter_title': False}]
whole_document(t) == << Section(t, FALSE) >>

\* Bug: the Section is appended whether or not its text is empty.
section_appended_always(joined, flag) == << Section(strip(joined), flag) >>

\* x = joined.strip(); if x: sections.append({'text': x, ...})
section_if_text(joined, flag) ==
    IF strip(joined) # <<>> THEN << Section(strip(joined), flag) >> ELSE <<>>

\* Bug: the content of a chapter runs to the end of the document.
content_end_of_document(lines, indices, chapter_idx) == Len(lines)

\* next_chapter_idx if next_chapter_idx else len(lines), next_chapter_idx
\* being the first chapter index after chapter_idx (None if there is
\* none; it is never 0, so it is taken whenever there is one).
content_end(lines, indices, chapter_idx) ==
    LET later == {k \in DOMAIN indices : indices[k] > chapter_idx}
    IN IF later = {} THEN Len(lines) ELSE indices[Min(later)]

\* for chapter_idx in chapter_indices: the Sections appended from the
\* chapter indices in remaining on, current_start as the loop left it.
RECURSIVE chapter_loop(_, _, _, _)
chapter_loop(lines, indices, remaining, current_start) ==
    IF remaining = <<>> THEN <<>>
    ELSE LET chapter_idx == Head(remaining)
             end == content_end(lines, indices, chapter_idx)
         IN (IF chapter_idx > current_start
             THEN section_if_text(
                      join_lines(lines, current_start, chapter_idx), FALSE)
             ELSE <<>>)
            \o section_if_text(lines[chapter_idx + 1], TRUE)
            \o (IF chapter_idx + 1 < end
                THEN section_if_text(
                         join_lines(lines, chapter_idx + 1, end), FALSE)
                ELSE <<>>)
            \o chapter_loop(lines, indices, Tail(remaining), end)

detect_chapters(t) ==
    LET lines == split_lines(t, 1, 1)
        indices == chapter_indices(lines)
    IN IF indices = <<>> THEN whole_document(t)
       ELSE chapter_loop(lines, indices, indices, 0)

\* ------------------------------------------------------- command line
\* What main passes on: the document file (missing, unreadable or ok),
\* the voice reference (none given, missing or ok), and the value of a
\* --max-chunk-length option (<<>> when the option is not given).
Args(document, voice, max_chunk_length) ==
    [document |-> document, voice |-> voice,
     max_chunk_length |-> max_chunk_length]

DefaultArgs == Args("ok", "none", <<>>)

ArgsTried ==
    {Args(d, v, m) : d \in {"missing", "unreadable", "ok"},
                     v \in {"none", "missing", "ok"},
                     m \in {<<>>, <<100>>}}

\* ------------------------------- app_remote.py: ChatterboxAPIClient
\* for _ in range(180): the number of status polls of one call.
MaxStatusPolls == 180

\* What the server answers to the status request: the HTTP status code,
\* the 'msg' of the JSON body and what output.data[0] refers the file by
\* ("none": no data, or a first item that has neither 'path' nor 'url').
StatusResponse(status_code, msg, file) ==
    [status_code |-> status_code, msg |-> msg, file |-> file]

NoResponse == StatusResponse(0, "", "none")

StatusResponses ==
    {StatusResponse(c, m, f) :
         c \in {200, 500},
         m \in {"process_completed", "process_failed", "heartbeat"},
         f \in {"none", "path", "url"}}

\* The bytes of the file the server serves, file_response.content; the
\* server may serve a file of no bytes.
FileContents == {<<>>, <<"RIFF">>}

\* A call in progress, a call that returned bytes, a call that raised.
Running == [outcome |-> "running", content |-> <<>>, error |-> <<>>]
Returns(content) ==
    [outcome |-> "return", content |-> content, error |-> <<>>]
Raises(error) == [outcome |-> "raise", content |-> <<>>, error |-> error]

\* -------------------------------------------------------------- state
VARIABLES
    prog,                  \* which program runs
    sections,              \* detect_chapters(full_text)
    split_chapters,
    convert_mp3,
    chapter_pause,         \* milliseconds
    pc,                    \* position in the program
    section_idx,           \* enumerate(sections): 0-based
    chunk_i,               \* enumerate(text_chunks, 1): 1-based
    all_audio_chunks,      \* app, web: list of tensors; remote: audio_chunks
    current_chapter_audio, \* app: list of tensors of the chapter in progress
    section_audio_chunks,  \* app, web: list of tensors of the Section
    current_chapter,
    chapter_files,
    chapter_stats,
    total_chunks,
    disk,                  \* the files written: {[name, audio]}
    ret,                   \* "running", "True", "False", or the error raised
    output_file,           \* the path(s) printed as the output files
    narrator_log,          \* history: every Narrator call and its outcome
    flush_log,             \* history: every chapter buffer written
    encoder_log,           \* history: every convert_to_mp3 call
    text,                  \* the text a text function is called on
    max_length,            \* the max_length it is called with
    result,                \* what the text function returned
    args,                  \* the command line: the files named, the options
    polls,                 \* generate_audio_gradio: status polls made
    response,              \* generate_audio_gradio: the last HTTP response
    returned               \* generate_audio: what the call returned or raised

inputs == <<prog, sections, split_chapters, convert_mp3, chapter_pause,
            args>>
buffers == <<all_audio_chunks, current_chapter_audio, section_audio_chunks>>
outputs == <<chapter_files, disk, flush_log, encoder_log>>
text_call == <<text, max_length, result>>
client_call == <<polls, response, returned>>
\* No call of the remote client is in progress.
ClientIdle == polls = 0 /\ response = NoResponse /\ returned = Running

vars == <<prog, sections, split_chapters, convert_mp3, chapter_pause, pc,
          section_idx, chunk_i, all_audio_chunks, current_chapter_audio,
          section_audio_chunks, current_chapter, chapter_files,
          chapter_stats, total_chunks, disk, ret, output_file,
          narrator_log, flush_log, encoder_log, text, max_length, result,
          args, polls, response, returned>>

Init ==
    /\ prog \in Programs
    /\ sections \in DetectedSections
    /\ split_chapters \in BOOLEAN
    /\ convert_mp3 \in BOOLEAN
    /\ chapter_pause \in ChapterPauseValues
    \* process_audiobook has neither topology nor encoder option, and it
    \* refuses an empty text; app_remote splits the whole document into
    \* Chunks: one untitled run, no pauses.
    /\ prog = "web" =>
          /\ ~split_chapters /\ ~convert_mp3
          /\ sections # <<ContentSection(0)>>
    /\ prog = "remote" =>
          /\ ~split_chapters /\ ~convert_mp3 /\ chapter_pause = 0
          /\ Len(sections) = 1 /\ ~sections[1].is_chapter_title
    /\ pc = "loop"
    /\ section_idx = 0
    /\ chunk_i = 0
    /\ all_audio_chunks = <<>>
    /\ current_chapter_audio = <<>>
    /\ section_audio_chunks = <<>>
    /\ current_chapter = 0
    /\ chapter_files = <<>>
    /\ chapter_stats = <<>>
    /\ total_chunks = 0
    /\ disk = {}
    /\ ret = "running"
    /\ output_file = <<>>
    /\ narrator_log = <<>>
    /\ flush_log = <<>>
    /\ encoder_log = <<>>
    \* The Sections are given as detect_chapters and smart_text_split
    \* leave them: no text function is called on a text here.
    /\ text = <<>>
    /\ max_length = MAX_CHUNK_LENGTH
    /\ ClientIdle
    /\ result = <<>>
    \* The files named exist and no option is unknown: the run is past
    \* main and validate_inputs.
    /\ args = DefaultArgs

\* The Section the loop is at (sections is 1-based here).
section_data == sections[section_idx + 1]

InLoop(p) == prog = p /\ pc = "loop" /\ section_idx < Len(sections)

\* -------------------------------------------- app.py: create_audiobook
\* list.append(x).
append(list, x) == Append(list, x)

\* Bug: the chapter buffer never receives the unit.
chapter_append_dropped(buf, x) == buf

\* Bug: the chapter buffer is filled in single-output topology too.
chapter_append_any_topology(buf, x) == append(buf, x)

\* "if split_chapters: current_chapter_audio.append(x)".
chapter_append(buf, x) == IF split_chapters THEN append(buf, x) ELSE buf

\* Bug: the first title flushes too (the test on current_chapter lost).
flush_due_first_title(cc, buf) == split_chapters /\ buf # <<>>

\* The guard of the flush at a chapter title.
flush_due(cc, buf) == split_chapters /\ cc > 1 /\ buf # <<>>

\* Bug: the previous chapter is written under the new chapter's number.
title_flush_number_current(cc) == cc

\* The chapter number the flush at a title writes its buffer under.
title_flush_number(cc) == cc - 1

\* Bug: the buffer keeps the chapter that was just saved.
chapter_reset_kept(buf) == buf

\* "Reset for next chapter": current_chapter_audio = [].
chapter_reset(buf) == <<>>

\* The guard of the flush after the loop.
last_flush_due(buf) == split_chapters /\ buf # <<>>

\* Bug: the pause is also put before a title that is the first Section.
pause_before_due_any_idx(idx, cp) == cp > 0

\* The guard of the pause before a chapter title.
pause_before_due(idx, cp) == idx > 0 /\ cp > 0

\* The guard of the pause after a chapter title.
pause_after_due(cp) == cp > 0

\* Saving a chapter buffer as chapter k: ta.save of the WAV, then, when
\* asked, the transcode, removing the WAV only if it succeeded.
chapter_disk(d, k, audio, enc) ==
    LET saved == ta_save(d, chapter_filename(k), audio)
    IN  IF convert_mp3 /\ convert_to_mp3(enc)
        THEN os_remove(ffmpeg_disk(saved, chapter_filename(k),
                                   chapter_mp3_filename(k), enc),
                       chapter_filename(k))
        ELSE saved

\* The name appended to chapter_files for chapter k.
chapter_file(k, enc) ==
    IF convert_mp3 /\ convert_to_mp3(enc)
    THEN chapter_mp3_filename(k)
    ELSE chapter_filename(k)

\* The history of Encoder calls after saving the WAV input.
encoder_called(input, enc) ==
    IF convert_mp3
    THEN Append(encoder_log, [input |-> input, outcome |-> enc])
    ELSE encoder_log

\* Bug: the Section's chunks are concatenated last first.
section_audio_reversed(chunks) ==
    Cat([i \in 1..Len(chunks) |-> chunks[Len(chunks) + 1 - i]])

\* torch.cat(section_audio_chunks).
section_audio(chunks) == Cat(chunks)

\* A chapter title is reached: count it and save the previous chapter.
TitleEnter(enc) ==
    /\ InLoop("app")
    /\ section_data.is_chapter_title
    /\ current_chapter' = current_chapter + 1
    /\ IF flush_due(current_chapter', current_chapter_audio)
       THEN LET k == title_flush_number(current_chapter')
                chapter_audio == Cat(current_chapter_audio)
            IN  /\ disk' = chapter_disk(disk, k, chapter_audio, enc)
                /\ chapter_files' = append(chapter_files, chapter_file(k, enc))
                /\ flush_log' = Append(flush_log,
                       [chapter |-> k, at |-> section_idx,
                        audio |-> chapter_audio])
                /\ encoder_log' = encoder_called(chapter_filename(k), enc)
                /\ current_chapter_audio' =
                       chapter_reset(current_chapter_audio)
       ELSE UNCHANGED <<disk, chapter_files, flush_log, encoder_log,
                        current_chapter_audio>>
    /\ pc' = "pause_before"
    /\ UNCHANGED <<inputs, text_call, client_call, section_idx, chunk_i, all_audio_chunks,
                   section_audio_chunks, chapter_stats, total_chunks, ret,
                   output_file, narrator_log>>

\* The pause before the chapter title.
PauseBefore ==
    /\ prog = "app" /\ pc = "pause_before"
    /\ IF pause_before_due(section_idx, chapter_pause)
       THEN LET p == pause_audio("pause_before", section_idx, chapter_pause)
            IN  /\ all_audio_chunks' = append(all_audio_chunks, p)
                /\ current_chapter_audio' =
                       chapter_append(current_chapter_audio, p)
       ELSE UNCHANGED <<all_audio_chunks, current_chapter_audio>>
    /\ pc' = "title"
    /\ UNCHANGED <<inputs, text_call, client_call, section_idx, chunk_i, section_audio_chunks,
                   current_chapter, chapter_stats, total_chunks, outputs,
                   ret, output_file, narrator_log>>

\* model.generate for the chapter title; a failure skips to the next
\* Section ("continue").
GenerateTitle(outcome) ==
    /\ prog = "app" /\ pc = "title"
    /\ narrator_log' = Append(narrator_log,
           [sec |-> section_idx, chk |-> 0, outcome |-> outcome])
    /\ IF outcome # "fail"
       THEN LET chapter_title_audio ==
                    wav_audio("title", section_idx, 0)
            IN  /\ all_audio_chunks' =
                       append(all_audio_chunks, chapter_title_audio)
                /\ current_chapter_audio' =
                       chapter_append(current_chapter_audio,
                                      chapter_title_audio)
                /\ pc' = "pause_after"
                /\ UNCHANGED section_idx
       ELSE /\ section_idx' = section_idx + 1
            /\ pc' = "loop"
            /\ UNCHANGED <<all_audio_chunks, current_chapter_audio>>
    /\ UNCHANGED <<inputs, text_call, client_call, chunk_i, section_audio_chunks, current_chapter,
                   chapter_stats, total_chunks, outputs, ret, output_file>>

\* The pause after the chapter title.
PauseAfter ==
    /\ prog = "app" /\ pc = "pause_after"
    /\ IF pause_after_due(chapter_pause)
       THEN LET p == pause_audio("pause_after", section_idx, chapter_pause)
            IN  /\ all_audio_chunks' = append(all_audio_chunks, p)
                /\ current_chapter_audio' =
                       chapter_append(current_chapter_audio, p)
       ELSE UNCHANGED <<all_audio_chunks, current_chapter_audio>>
    /\ section_idx' = section_idx + 1
    /\ pc' = "loop"
    /\ UNCHANGED <<inputs, text_call, client_call, chunk_i, section_audio_chunks, current_chapter,
                   chapter_stats, total_chunks, outputs, ret, output_file,
                   narrator_log>>

\* A content Section is reached: split it into Chunks.
SplitSection ==
    /\ InLoop("app")
    /\ ~section_data.is_chapter_title
    /\ total_chunks' = total_chunks + section_data.n_chunks
    /\ IF section_data.n_chunks = 0
       THEN /\ section_idx' = section_idx + 1
            /\ UNCHANGED <<pc, chunk_i, section_audio_chunks>>
       ELSE /\ section_audio_chunks' = <<>>
            /\ chunk_i' = 1
            /\ pc' = "chunk"
            /\ UNCHANGED section_idx
    /\ UNCHANGED <<inputs, text_call, client_call, all_audio_chunks, current_chapter_audio,
                   current_chapter, chapter_stats, outputs, ret,
                   output_file, narrator_log>>

\* Bug: a Narrator failure leaves the chunk loop ("break").
after_chunk_failure_break(i, n) == n + 1

\* Where the chunk loop goes after a Narrator failure on chunk i
\* ("continue": on to chunk i + 1).
after_chunk_failure(i, n) == i + 1

\* model.generate for one Chunk; a failure skips the Chunk.
GenerateChunk(outcome) ==
    /\ prog = "app" /\ pc = "chunk"
    /\ narrator_log' = Append(narrator_log,
           [sec |-> section_idx, chk |-> chunk_i, outcome |-> outcome])
    /\ LET n == section_data.n_chunks
           next == IF outcome # "fail" THEN chunk_i + 1
                   ELSE after_chunk_failure(chunk_i, n)
       IN  /\ section_audio_chunks' =
               IF outcome # "fail"
               THEN append(section_audio_chunks,
                           wav_audio("chunk", section_idx, chunk_i))
               ELSE section_audio_chunks
           /\ chunk_i' = next
           /\ pc' = IF next > n THEN "section_end" ELSE "chunk"
    /\ UNCHANGED <<inputs, text_call, client_call, section_idx, all_audio_chunks,
                   current_chapter_audio, current_chapter, chapter_stats,
                   total_chunks, outputs, ret, output_file>>

\* After the Section's Chunks: append the Section's audio, if any.
SectionEnd ==
    /\ prog = "app" /\ pc = "section_end"
    /\ IF section_audio_chunks # <<>>
       THEN LET sa == section_audio(section_audio_chunks)
            IN  /\ all_audio_chunks' = append(all_audio_chunks, sa)
                /\ current_chapter_audio' =
                       chapter_append(current_chapter_audio, sa)
                /\ chapter_stats' = append(chapter_stats,
                       [section |-> section_idx + 1,
                        is_chapter_title |-> section_data.is_chapter_title,
                        chunks |-> section_data.n_chunks,
                        duration |-> Samples(sa)])
       ELSE UNCHANGED <<all_audio_chunks, current_chapter_audio,
                        chapter_stats>>
    /\ section_idx' = section_idx + 1
    /\ pc' = "loop"
    /\ UNCHANGED <<inputs, text_call, client_call, chunk_i, section_audio_chunks, current_chapter,
                   total_chunks, outputs, ret, output_file, narrator_log>>

\* After the loop: save the last chapter.
SaveLastChapter(enc) ==
    /\ prog = "app" /\ pc = "loop" /\ section_idx = Len(sections)
    /\ IF last_flush_due(current_chapter_audio)
       THEN LET chapter_audio == Cat(current_chapter_audio)
            IN  /\ disk' = chapter_disk(disk, current_chapter,
                                        chapter_audio, enc)
                /\ chapter_files' =
                       append(chapter_files,
                              chapter_file(current_chapter, enc))
                /\ flush_log' = Append(flush_log,
                       [chapter |-> current_chapter, at |-> section_idx,
                        audio |-> chapter_audio])
                /\ encoder_log' =
                       encoder_called(chapter_filename(current_chapter), enc)
       ELSE UNCHANGED outputs
    /\ pc' = "final"
    /\ UNCHANGED <<inputs, text_call, client_call, section_idx, chunk_i, buffers, current_chapter,
                   chapter_stats, total_chunks, ret, output_file,
                   narrator_log>>

\* "No audio was generated" or, in single-output topology, the save of
\* the whole audiobook and its transcode.
FinalSave(enc) ==
    /\ prog = "app" /\ pc = "final"
    /\ IF all_audio_chunks = <<>>
       THEN /\ ret' = "False"
            /\ pc' = "done"
            /\ UNCHANGED <<disk, encoder_log>>
       ELSE /\ pc' = "stats"
            /\ UNCHANGED ret
            /\ IF ~split_chapters
               THEN LET saved == ta_save(disk, output_path,
                                         Cat(all_audio_chunks))
                    IN  /\ disk' =
                             IF convert_mp3 /\ convert_to_mp3(enc)
                             THEN os_remove(ffmpeg_disk(saved, output_path,
                                                        output_mp3, enc),
                                            output_path)
                             ELSE saved
                        /\ encoder_log' = encoder_called(output_path, enc)
               ELSE UNCHANGED <<disk, encoder_log>>
    /\ UNCHANGED <<inputs, text_call, client_call, section_idx, chunk_i, buffers, current_chapter,
                   chapter_files, chapter_stats, total_chunks, output_file,
                   narrator_log, flush_log>>

\* The path(s) the statistics print as the output.
reported_output ==
    IF split_chapters THEN chapter_files
    ELSE IF convert_mp3 THEN <<output_mp3>> ELSE <<output_path>>

\* The statistics: total_chars / total_duration raises when no content
\* Section produced audio.
Statistics ==
    /\ prog = "app" /\ pc = "stats"
    /\ IF total_duration(chapter_stats) = 0
       THEN /\ ret' = "ZeroDivisionError"
            /\ UNCHANGED output_file
       ELSE /\ ret' = "True"
            /\ output_file' = reported_output
    /\ pc' = "done"
    /\ UNCHANGED <<inputs, text_call, client_call, section_idx, chunk_i, buffers, current_chapter,
                   chapter_stats, total_chunks, outputs, narrator_log>>

AppNext ==
    \/ \E enc \in EncoderOutcomes : TitleEnter(enc)
    \/ PauseBefore
    \/ \E outcome \in NarratorOutcomes : GenerateTitle(outcome)
    \/ PauseAfter
    \/ SplitSection
    \/ \E outcome \in NarratorOutcomes : GenerateChunk(outcome)
    \/ SectionEnd
    \/ \E enc \in EncoderOutcomes : SaveLastChapter(enc)
    \/ \E enc \in EncoderOutcomes : FinalSave(enc)
    \/ Statistics

\* ----------------------------------- web_interface.py: process_audiobook
\* A chapter title is reached: the pause before it.
WebPauseBefore ==
    /\ InLoop("web")
    /\ section_data.is_chapter_title
    /\ all_audio_chunks' =
           IF pause_before_due(section_idx, chapter_pause)
           THEN append(all_audio_chunks,
                       pause_audio("pause_before", section_idx,
                                   chapter_pause))
           ELSE all_audio_chunks
    /\ pc' = "title"
    /\ UNCHANGED <<inputs, text_call, client_call, section_idx, chunk_i, current_chapter_audio,
                   section_audio_chunks, current_chapter, chapter_stats,
                   total_chunks, outputs, ret, output_file, narrator_log>>

\* tts_model.generate for the chapter title; a failure skips to the next
\* Section ("continue").
WebGenerateTitle(outcome) ==
    /\ prog = "web" /\ pc = "title"
    /\ narrator_log' = Append(narrator_log,
           [sec |-> section_idx, chk |-> 0, outcome |-> outcome])
    /\ IF outcome # "fail"
       THEN /\ all_audio_chunks' =
                   append(all_audio_chunks,
                          wav_audio("title", section_idx, 0))
            /\ pc' = "pause_after"
            /\ UNCHANGED section_idx
       ELSE /\ section_idx' = section_idx + 1
            /\ pc' = "loop"
            /\ UNCHANGED all_audio_chunks
    /\ UNCHANGED <<inputs, text_call, client_call, chunk_i, current_chapter_audio,
                   section_audio_chunks, current_chapter, chapter_stats,
                   total_chunks, outputs, ret, output_file>>

\* The pause after the chapter title.
WebPauseAfter ==
    /\ prog = "web" /\ pc = "pause_after"
    /\ all_audio_chunks' =
           IF pause_after_due(chapter_pause)
           THEN append(all_audio_chunks,
                       pause_audio("pause_after", section_idx,
                                   chapter_pause))
           ELSE all_audio_chunks
    /\ section_idx' = section_idx + 1
    /\ pc' = "loop"
    /\ UNCHANGED <<inputs, text_call, client_call, chunk_i, current_chapter_audio,
                   section_audio_chunks, current_chapter, chapter_stats,
                   total_chunks, outputs, ret, output_file, narrator_log>>

\* A content Section is reached: split it into Chunks.
WebSplitSection ==
    /\ InLoop("web")
    /\ ~section_data.is_chapter_title
    /\ total_chunks' = total_chunks + section_data.n_chunks
    /\ IF section_data.n_chunks = 0
       THEN /\ section_idx' = section_idx + 1
            /\ UNCHANGED <<pc, chunk_i, section_audio_chunks>>
       ELSE /\ section_audio_chunks' = <<>>
            /\ chunk_i' = 1
            /\ pc' = "chunk"
            /\ UNCHANGED section_idx
    /\ UNCHANGED <<inputs, text_call, client_call, all_audio_chunks, current_chapter_audio,
                   current_chapter, chapter_stats, outputs, ret,
                   output_file, narrator_log>>

\* tts_model.generate for one Chunk; a failure skips the Chunk.
WebGenerateChunk(outcome) ==
    /\ prog = "web" /\ pc = "chunk"
    /\ narrator_log' = Append(narrator_log,
           [sec |-> section_idx, chk |-> chunk_i, outcome |-> outcome])
    /\ section_audio_chunks' =
           IF outcome # "fail"
           THEN append(section_audio_chunks,
                       wav_audio("chunk", section_idx, chunk_i))
           ELSE section_audio_chunks
    /\ chunk_i' = chunk_i + 1
    /\ pc' = IF chunk_i + 1 > section_data.n_chunks
             THEN "section_end" ELSE "chunk"
    /\ UNCHANGED <<inputs, text_call, client_call, section_idx, all_audio_chunks,
                   current_chapter_audio, current_chapter, chapter_stats,
                   total_chunks, outputs, ret, output_file>>

\* After the Section's Chunks: append the Section's audio, if any.
WebSectionEnd ==
    /\ prog = "web" /\ pc = "section_end"
    /\ all_audio_chunks' =
           IF section_audio_chunks # <<>>
           THEN append(all_audio_chunks,
                       section_audio(section_audio_chunks))
           ELSE all_audio_chunks
    /\ section_idx' = section_idx + 1
    /\ pc' = "loop"
    /\ UNCHANGED <<inputs, text_call, client_call, chunk_i, current_chapter_audio,
                   section_audio_chunks, current_chapter, chapter_stats,
                   total_chunks, outputs, ret, output_file, narrator_log>>

\* After the loop: "No audio was generated", or the save; the speed
\* statistic divides by the duration, and the enclosing handler turns the
\* error into a failure return after the file was written.
WebSave ==
    /\ prog = "web" /\ pc = "loop" /\ section_idx = Len(sections)
    /\ IF all_audio_chunks = <<>>
       THEN /\ ret' = "False"
            /\ UNCHANGED <<disk, output_file>>
       ELSE LET full_audio == Cat(all_audio_chunks)
            IN  /\ disk' = ta_save(disk, output_path, full_audio)
                /\ IF Samples(full_audio) = 0
                   THEN ret' = "False" /\ UNCHANGED output_file
                   ELSE ret' = "True" /\ output_file' = <<output_path>>
    /\ pc' = "done"
    /\ UNCHANGED <<inputs, text_call, client_call, section_idx, chunk_i, buffers, current_chapter,
                   chapter_files, chapter_stats, total_chunks,
                   narrator_log, flush_log, encoder_log, text_call, args>>

WebNext ==
    \/ WebPauseBefore
    \/ \E outcome \in NarratorOutcomes : WebGenerateTitle(outcome)
    \/ WebPauseAfter
    \/ WebSplitSection
    \/ \E outcome \in NarratorOutcomes : WebGenerateChunk(outcome)
    \/ WebSectionEnd
    \/ WebSave

\* --------------------------------------- app_remote.py: create_audiobook
\* smart_text_split(full_text): no Chunk ends the run in failure.
RemoteSplit ==
    /\ InLoop("remote") /\ chunk_i = 0
    /\ IF section_data.n_chunks = 0
       THEN ret' = "False" /\ pc' = "done" /\ UNCHANGED chunk_i
       ELSE chunk_i' = 1 /\ pc' = "chunk" /\ UNCHANGED ret
    /\ UNCHANGED <<inputs, text_call, client_call, section_idx, buffers, current_chapter,
                   chapter_stats, total_chunks, outputs, output_file,
                   narrator_log>>

\* client.generate_audio for one Chunk; a failure skips the Chunk.
RemoteGenerateChunk(outcome) ==
    /\ prog = "remote" /\ pc = "chunk"
    /\ narrator_log' = Append(narrator_log,
           [sec |-> section_idx, chk |-> chunk_i, outcome |-> outcome])
    /\ all_audio_chunks' =
           IF outcome # "fail"
           THEN append(all_audio_chunks,
                       wav_audio("chunk", section_idx, chunk_i))
           ELSE all_audio_chunks
    /\ chunk_i' = chunk_i + 1
    /\ pc' = IF chunk_i + 1 > section_data.n_chunks
             THEN "save" ELSE "chunk"
    /\ UNCHANGED <<inputs, text_call, client_call, section_idx, current_chapter_audio,
                   section_audio_chunks, current_chapter, chapter_stats,
                   total_chunks, outputs, ret, output_file>>

\* "No audio was generated", or save_audio_chunks_as_wav.
RemoteSave ==
    /\ prog = "remote" /\ pc = "save"
    /\ IF all_audio_chunks = <<>>
       THEN ret' = "False" /\ UNCHANGED <<disk, output_file>>
       ELSE /\ disk' = ta_save(disk, output_path, Cat(all_audio_chunks))
            /\ output_file' = <<output_path>>
            /\ ret' = "True"
    /\ pc' = "done"
    /\ UNCHANGED <<inputs, text_call, client_call, section_idx, chunk_i, buffers, current_chapter,
                   chapter_files, chapter_stats, total_chunks,
                   narrator_log, flush_log, encoder_log, text_call, args>>

RemoteNext ==
    \/ RemoteSplit
    \/ \E outcome \in NarratorOutcomes : RemoteGenerateChunk(outcome)
    \/ RemoteSave

Next == AppNext \/ WebNext \/ RemoteNext

Spec == Init /\ [][Next]_vars

\* ------------------------------------------- smart_text_split, called
\* The pipeline's variables while a text function is called on its own.
NoRun ==
    /\ prog = "app"
    /\ ClientIdle
    /\ args = DefaultArgs
    /\ sections = << ContentSection(0) >>
    /\ split_chapters = TRUE /\ convert_mp3 = TRUE /\ chapter_pause = 0
    /\ section_idx = 0 /\ chunk_i = 0
    /\ all_audio_chunks = <<>> /\ current_chapter_audio = <<>>
    /\ section_audio_chunks = <<>>
    /\ current_chapter = 0
    /\ chapter_files = <<>> /\ chapter_stats = <<>> /\ total_chunks = 0
    /\ disk = {} /\ ret = "running" /\ output_file = <<>>
    /\ narrator_log = <<>> /\ flush_log = <<>> /\ encoder_log = <<>>

run_but_client ==
    <<inputs, buffers, outputs, section_idx, chunk_i, current_chapter,
      chapter_stats, total_chunks, ret, output_file, narrator_log>>

run == <<run_but_client, client_call>>

SplitInit ==
    /\ NoRun
    /\ pc = "smart_text_split"
    /\ text \in Texts
    /\ max_length \in 1..MaxLength
    /\ result = <<>>

\* chunks = smart_text_split(text, max_length)
SplitCall ==
    /\ pc = "smart_text_split"
    /\ result' = smart_text_split(text, max_length)
    /\ pc' = "returned"
    /\ UNCHANGED <<run, text, max_length>>

SplitNext == SplitCall

SplitSpec == SplitInit /\ [][SplitNext]_vars

\* -------------------------------------------- detect_chapters, called
DetectInit ==
    /\ NoRun
    /\ pc = "detect_chapters"
    /\ text \in Documents
    /\ max_length = MAX_CHUNK_LENGTH
    /\ result = <<>>

\* sections = detect_chapters(text)
DetectCall ==
    /\ pc = "detect_chapters"
    /\ result' = detect_chapters(text)
    /\ pc' = "detected"
    /\ UNCHANGED <<run, text, max_length>>

DetectNext == DetectCall

DetectSpec == DetectInit /\ [][DetectNext]_vars

\* ------------------------------- app.py: create_audiobook on a document
\* 'Chapter 1\nA.\n\nB.': a title and a content Section of two
\* paragraphs, as the document of test_paragraph_pauses.py in small.
ParagraphsDocument ==
    <<"C", "h", "a", "p", "t", "e", "r", " ", "1", "\n",
      "A", ".", "\n", "\n", "B", ".">>

\* The documents create_audiobook is run on: the two-chapter document,
\* the document of paragraphs and every document of at most MaxRunTokens
\* pieces.
MaxRunTokens == 3
RunDocuments ==
    {ExampleDocument, ParagraphsDocument} \cup
    {Cat(d) : d \in UNION {[1..n -> DocTokens] : n \in 0..MaxRunTokens}}

\* What the loop reads of the Sections: the title flag, and for a content
\* Section the number of Chunks of
\* smart_text_split(section_text, max_length=MAX_CHUNK_LENGTH).
loop_sections(secs) ==
    [i \in DOMAIN secs |->
        IF secs[i].is_chapter_title THEN TitleSection
        ELSE ContentSection(
                 Len(smart_text_split(secs[i].text, MAX_CHUNK_LENGTH)))]

\* full_text read, sections = detect_chapters(full_text), the state
\* before the loop.
DocInit ==
    /\ prog = "app"
    /\ ClientIdle
    /\ args = DefaultArgs
    /\ text \in RunDocuments
    /\ max_length = MAX_CHUNK_LENGTH
    /\ result = detect_chapters(text)
    /\ sections = loop_sections(result)
    /\ split_chapters \in BOOLEAN
    /\ convert_mp3 \in BOOLEAN
    /\ chapter_pause \in ChapterPauseValues
    /\ pc = "loop"
    /\ section_idx = 0 /\ chunk_i = 0
    /\ all_audio_chunks = <<>> /\ current_chapter_audio = <<>>
    /\ section_audio_chunks = <<>>
    /\ current_chapter = 0
    /\ chapter_files = <<>> /\ chapter_stats = <<>> /\ total_chunks = 0
    /\ disk = {} /\ ret = "running" /\ output_file = <<>>
    /\ narrator_log = <<>> /\ flush_log = <<>> /\ encoder_log = <<>>

DocSpec == DocInit /\ [][AppNext]_vars

\* ---------------------------------------- app.py: main, create_audiobook
\* What loading the model can do.
ModelOutcomes == {"loaded", "raise"}

\* Bug: the voice reference is not looked at.
validate_inputs_document_only(a) == a.document # "missing"

\* validate_inputs(document_path, voice_prompt_path): both files exist
\* (the voice reference only if one is given).
validate_inputs(a) == a.document # "missing" /\ a.voice # "missing"

\* The command line as main is started with it; text is what the document
\* file holds when it can be read.
MainInit ==
    /\ prog = "app"
    /\ ClientIdle
    /\ args \in ArgsTried
    /\ text \in IF args.document = "ok" THEN RunDocuments ELSE {<<>>}
    /\ max_length = MAX_CHUNK_LENGTH
    /\ result = <<>>
    /\ sections = <<>>
    /\ split_chapters \in BOOLEAN
    /\ convert_mp3 \in BOOLEAN
    /\ chapter_pause \in ChapterPauseValues
    /\ pc = "main"
    /\ section_idx = 0 /\ chunk_i = 0
    /\ all_audio_chunks = <<>> /\ current_chapter_audio = <<>>
    /\ section_audio_chunks = <<>>
    /\ current_chapter = 0
    /\ chapter_files = <<>> /\ chapter_stats = <<>> /\ total_chunks = 0
    /\ disk = {} /\ ret = "running" /\ output_file = <<>>
    /\ narrator_log = <<>> /\ flush_log = <<>> /\ encoder_log = <<>>

loop_state == <<section_idx, chunk_i, buffers, current_chapter, chapter_stats,
                total_chunks, outputs, output_file, narrator_log>>

\* parser.parse_args(): an option the parser does not know ends the
\* program (argparse: "unrecognized arguments", exit status 2); the
\* parser has no --max-chunk-length.
ParseArgs ==
    /\ prog = "app" /\ pc = "main"
    /\ IF args.max_chunk_length # <<>>
       THEN ret' = "SystemExit" /\ pc' = "done"
       ELSE pc' = "validate_inputs" /\ UNCHANGED ret
    /\ UNCHANGED <<inputs, text_call, client_call, loop_state>>

\* if not validate_inputs(document_path, voice_prompt_path): return False
ValidateInputs ==
    /\ prog = "app" /\ pc = "validate_inputs"
    /\ IF ~validate_inputs(args)
       THEN ret' = "False" /\ pc' = "done"
       ELSE pc' = "load_model" /\ UNCHANGED ret
    /\ UNCHANGED <<inputs, text_call, client_call, loop_state>>

\* model = ChatterboxTTS.from_pretrained(device=device)
LoadModel(outcome) ==
    /\ prog = "app" /\ pc = "load_model"
    /\ IF outcome = "raise"
       THEN ret' = "False" /\ pc' = "done"
       ELSE pc' = "read_document" /\ UNCHANGED ret
    /\ UNCHANGED <<inputs, text_call, client_call, loop_state>>

\* full_text = f.read(); sections = detect_chapters(full_text)
ReadDocument ==
    /\ prog = "app" /\ pc = "read_document"
    /\ IF args.document = "unreadable"
       THEN /\ ret' = "False" /\ pc' = "done"
            /\ UNCHANGED <<result, sections>>
       ELSE /\ result' = detect_chapters(text)
            /\ sections' = loop_sections(result')
            /\ pc' = "loop"
            /\ UNCHANGED ret
    /\ UNCHANGED <<client_call, prog, split_chapters, convert_mp3,
                   chapter_pause, args,
                   text, max_length, loop_state>>

MainNext ==
    \/ ParseArgs
    \/ ValidateInputs
    \/ \E outcome \in ModelOutcomes : LoadModel(outcome)
    \/ ReadDocument
    \/ AppNext

MainSpec == MainInit /\ [][MainNext]_vars

\* ------------------- app_remote.py: ChatterboxAPIClient.generate_audio
\* The status request itself failed (timeout, connection error).
RequestFailed == StatusResponse(0, "RequestException", "none")

\* requests.post(...), raise_for_status(), result.get('event_id').
PostOutcomes == {"event_id", "no_event_id", "RequestException"}

\* requests.get(file_url), raise_for_status(), file_response.content.
FileResponse(ok, content) == [ok |-> ok, content |-> content]
FileResponses ==
    {FileResponse(TRUE, c) : c \in FileContents}
        \cup {FileResponse(FALSE, <<>>)}

\* except requests.RequestException as e: raise Exception(...).
api_request_failed == Raises(<<"API request failed", "RequestException">>)

\* generate_audio: the bytes generate_audio_gradio returned are returned
\* as they are; what it raised is raised again under a new message.
generate_audio(gradio) ==
    IF gradio.outcome = "raise"
    THEN Raises(<<"Audio generation failed">> \o gradio.error)
    ELSE gradio

\* What one iteration of the polling loop does with the response r.
status_poll(r) ==
    IF r = RequestFailed THEN "RequestException"
    ELSE IF r.status_code # 200 THEN "continue"
    ELSE IF r.msg = "process_completed"
    THEN (IF r.file \in {"path", "url"} THEN "download" ELSE "break")
    ELSE IF r.msg = "process_failed" THEN "raise"
    ELSE "continue"

\* One call of client.generate_audio, the rest of the program idle.
ClientInit ==
    /\ prog = "remote"
    /\ args = DefaultArgs
    /\ sections = << ContentSection(0) >>
    /\ split_chapters = FALSE /\ convert_mp3 = FALSE /\ chapter_pause = 0
    /\ section_idx = 0 /\ chunk_i = 0
    /\ all_audio_chunks = <<>> /\ current_chapter_audio = <<>>
    /\ section_audio_chunks = <<>>
    /\ current_chapter = 0
    /\ chapter_files = <<>> /\ chapter_stats = <<>> /\ total_chunks = 0
    /\ disk = {} /\ ret = "running" /\ output_file = <<>>
    /\ narrator_log = <<>> /\ flush_log = <<>> /\ encoder_log = <<>>
    /\ text = <<>> /\ max_length = MAX_CHUNK_LENGTH /\ result = <<>>
    /\ ClientIdle
    /\ pc = "post"

\* The call of the Gradio endpoint and the event_id of its answer.
Post(outcome) ==
    /\ pc = "post"
    /\ IF outcome = "event_id"
       THEN pc' = "poll" /\ UNCHANGED returned
       ELSE /\ pc' = "done"
            /\ returned' = generate_audio(
                   IF outcome = "no_event_id"
                   THEN Raises(<<"No event_id received from server">>)
                   ELSE api_request_failed)
    /\ UNCHANGED <<run_but_client, text_call, polls, response>>

\* One iteration of "for _ in range(180)": sleep, ask for the status,
\* and either go on to the download, raise, leave the loop (which raises
\* the timeout) or poll again; the loop ends after the last iteration.
Poll(r) ==
    /\ pc = "poll"
    /\ polls < MaxStatusPolls
    /\ polls' = polls + 1
    /\ response' = r
    /\ LET step == status_poll(r)
           timeout == Raises(<<"Timeout waiting for audio generation">>)
       IN  IF step = "download"
           THEN pc' = "download" /\ UNCHANGED returned
           ELSE IF step = "continue" /\ polls' < MaxStatusPolls
           THEN pc' = "poll" /\ UNCHANGED returned
           ELSE /\ pc' = "done"
                /\ returned' = generate_audio(
                       IF step = "RequestException" THEN api_request_failed
                       ELSE IF step = "raise"
                       THEN Raises(<<"Server processing failed">>)
                       ELSE timeout)
    /\ UNCHANGED <<run_but_client, text_call>>

\* The download of the file the completed status refers to.
Download(f) ==
    /\ pc = "download"
    /\ pc' = "done"
    /\ returned' = generate_audio(
           IF f.ok THEN Returns(f.content) ELSE api_request_failed)
    /\ UNCHANGED <<run_but_client, text_call, polls, response>>

ClientNext ==
    \/ \E outcome \in PostOutcomes : Post(outcome)
    \/ \E r \in StatusResponses \cup {RequestFailed} : Poll(r)
    \/ \E f \in FileResponses : Download(f)

ClientSpec == ClientInit /\ [][ClientNext]_vars

\* Every HTTP request of the client has a timeout, so a call that can
\* take a step takes it.
ClientFairSpec == ClientSpec /\ WF_vars(ClientNext)

\* -------------------------------------- app.py: the statistics printed
\* sum(stat['chars'] for stat in chapter_stats): 'chars' is
\* len(section_text) of the Section the entry was made for.
RECURSIVE total_chars(_)
total_chars(stats) ==
    IF stats = <<>> THEN 0
    ELSE Len(result[Head(stats).section].text) + total_chars(Tail(stats))

\* sum(1 for section in sections if section['is_chapter_title'])
chapter_count == Cardinality({i \in DOMAIN sections : sections[i].is_chapter_title})

\* The numbers of the "Statistics:" block a run that returns True prints
\* (total_duration in samples); the section breakdown repeats
\* chapter_stats entry by entry.
printed_statistics ==
    [total_sections |-> Len(sections),
     chapter_titles |-> chapter_count,
     total_chunks |-> total_chunks,
     total_chars |-> total_chars(chapter_stats),
     total_duration |-> total_duration(chapter_stats)]

\* ============================================================ properties
\* The narrated segments (titles and chunks) of a tensor, and its pauses.
IsNarrated(g) == g.kind \in {"title", "chunk"}
IsPause(g) == g.kind \in {"pause_before", "pause_after"}

\* Document order of two narrated segments.
Precedes(a, b) == a.sec < b.sec \/ (a.sec = b.sec /\ a.chk < b.chk)

\* The narrated segments of tensor t are in strict document order.
InDocumentOrder(t) ==
    \A i, j \in 1..Len(t) :
        (i < j /\ IsNarrated(t[i]) /\ IsNarrated(t[j]))
            => Precedes(t[i], t[j])

\* The audio of all flushed chapter buffers, in flush order.
RECURSIVE FlushedCat(_)
FlushedCat(log) ==
    IF log = <<>> THEN <<>> ELSE Head(log).audio \o FlushedCat(Tail(log))

Failed(sec, chk) ==
    \E i \in 1..Len(narrator_log) :
        /\ narrator_log[i].sec = sec /\ narrator_log[i].chk = chk
        /\ narrator_log[i].outcome = "fail"

Succeeded(sec, chk) ==
    \E i \in 1..Len(narrator_log) :
        /\ narrator_log[i].sec = sec /\ narrator_log[i].chk = chk
        /\ narrator_log[i].outcome # "fail"

SomeSuccess == \E i \in 1..Len(narrator_log) : narrator_log[i].outcome # "fail"
SomeFailure == \E i \in 1..Len(narrator_log) : narrator_log[i].outcome = "fail"

SectionIdxs == 0..(Len(sections) - 1)
IsTitle(s) == sections[s + 1].is_chapter_title

\* C1: in every buffer and every written file of all three programs, the
\* narrated units keep the document order of their Sections and Chunks,
\* whatever Narrator calls failed.
C1_UnitsInDocumentOrder ==
    /\ InDocumentOrder(Cat(all_audio_chunks))
    /\ InDocumentOrder(Cat(current_chapter_audio))
    /\ InDocumentOrder(Cat(section_audio_chunks))
    /\ \A f \in disk : InDocumentOrder(f.audio)
    /\ \A i \in 1..Len(flush_log) : InDocumentOrder(flush_log[i].audio)

\* C1 witness: a finished run with a failed call wrote a file holding two
\* chunks of one Section and a unit of another Section.
C1_Witness ==
    /\ pc = "done" /\ SomeFailure
    /\ \E f \in disk : \E i, j, k \in 1..Len(f.audio) :
          /\ f.audio[i].kind = "chunk" /\ f.audio[j].kind = "chunk"
          /\ f.audio[i].sec = f.audio[j].sec /\ i # j
          /\ IsNarrated(f.audio[k]) /\ f.audio[k].sec # f.audio[i].sec

\* C2: when every Narrator call of a create_audiobook run failed, the run
\* ends reporting failure and has written no file, whatever chapter_pause.
C2_NoAudioNoOutput ==
    (prog = "app" /\ pc = "done" /\ ~SomeSuccess)
        => (ret = "False" /\ disk = {})

\* C3: when at least one Narrator call succeeded, create_audiobook ends
\* without an uncaught error, returns success and has written output.
C3_PartialSuccessCompletes ==
    (prog = "app" /\ pc = "done" /\ SomeSuccess)
        => (ret = "True" /\ disk # {})

\* The chunk segments of Section s in tensor t, and the Narrator calls
\* made for the Chunks of Section s, in the order made.
ChunkSegments(t, s) ==
    SelectSeq(t, LAMBDA g : g.kind = "chunk" /\ g.sec = s)
ChunkCalls(s) ==
    SelectSeq(narrator_log, LAMBDA e : e.sec = s /\ e.chk > 0)
ChunkSuccesses(s) ==
    SelectSeq(narrator_log,
              LAMBDA e : e.sec = s /\ e.chk > 0 /\ e.outcome # "fail")

\* The content Section s has been processed to its end.
SectionProcessed(s) ==
    IF prog = "remote" THEN pc \in {"save", "done"} /\ chunk_i > 0
    ELSE s < section_idx

\* The units of t from Section s are exactly the successful Chunks.
HoldsSuccessesOf(t, s) ==
    LET segs == ChunkSegments(t, s)
        ok == ChunkSuccesses(s)
    IN  /\ Len(segs) = Len(ok)
        /\ \A i \in 1..Len(segs) : segs[i].chk = ok[i].chk

\* C4: a Narrator failure on a Chunk skips that Chunk only: once a content
\* Section is processed, every one of its Chunks was attempted once, in
\* order, the buffers hold exactly the successful Chunks in that order
\* (nothing when all failed), and the run went on to the later Sections.
C4_ChunkFailureSkipsChunkOnly ==
    /\ \A s \in SectionIdxs :
          (~IsTitle(s) /\ SectionProcessed(s)) =>
             /\ Len(ChunkCalls(s)) = sections[s + 1].n_chunks
             /\ \A i \in 1..Len(ChunkCalls(s)) : ChunkCalls(s)[i].chk = i
             /\ HoldsSuccessesOf(Cat(all_audio_chunks), s)
             /\ (prog = "app" /\ split_chapters /\ pc \in {"loop", "final"})
                    => HoldsSuccessesOf(FlushedCat(flush_log)
                           \o (IF pc = "final" /\ flush_log # <<>>
                                  /\ flush_log[Len(flush_log)].at
                                         = Len(sections)
                               THEN <<>>
                               ELSE Cat(current_chapter_audio)), s)
    /\ (prog \in {"app", "web"} /\ pc = "done")
           => section_idx = Len(sections)

\* C4 witness: a finished run in which the first Chunk of a Section
\* failed, its second Chunk succeeded and a later Section was narrated.
C4_Witness ==
    /\ pc = "done"
    /\ \E s \in SectionIdxs :
          /\ Failed(s, 1) /\ Succeeded(s, 2)
          /\ \E i \in 1..Len(narrator_log) : narrator_log[i].sec > s
          /\ Len(ChunkSegments(Cat(all_audio_chunks), s)) = 1

\* The segments of the given kind for Section s in tensor t.
KindSegments(t, kind, s) ==
    SelectSeq(t, LAMBDA g : g.kind = kind /\ g.sec = s)

\* C5: with chapter_pause > 0, every processed chapter-title Section has
\* exactly one Pause after it in the buffer, whether its Narrator call
\* succeeded or failed.
C5_PauseAfterEveryTitle ==
    \A s \in SectionIdxs :
        (prog \in {"app", "web"} /\ IsTitle(s) /\ s < section_idx
            /\ chapter_pause > 0)
        => Len(KindSegments(Cat(all_audio_chunks), "pause_after", s)) = 1

\* The title step of Section s is past its pause-before point.
PastPauseBefore(s) ==
    \/ s < section_idx
    \/ s = section_idx /\ pc \in {"title", "pause_after"}

\* The positions in tensor t of the segments of the given kind of Section s.
Positions(t, kind, s) ==
    {i \in 1..Len(t) : t[i].kind = kind /\ t[i].sec = s}

\* C6: a Pause of int(chapter_pause * sample_rate) samples (24000 for
\* 1.0 s) stands before a chapter title, directly before the title's own
\* audio, if and only if the title is not the first Section and
\* chapter_pause > 0; with chapter_pause = 0 no Pause exists at all.
C6_PauseBeforeTitle ==
    LET t == Cat(all_audio_chunks)
    IN  /\ \A s \in SectionIdxs :
              (prog \in {"app", "web"} /\ IsTitle(s) /\ PastPauseBefore(s)) =>
                 LET before == Positions(t, "pause_before", s)
                 IN  /\ Cardinality(before) =
                            (IF s > 0 /\ chapter_pause > 0 THEN 1 ELSE 0)
                     /\ \A i \in before :
                           /\ t[i].n = pause_samples(chapter_pause)
                           /\ chapter_pause = 1000 => t[i].n = 24000
                           /\ \A j \in Positions(t, "title", s) : j = i + 1
        /\ \A i \in 1..Len(t) :
              t[i].kind = "pause_before" => ~(t[i].sec = 0)
        /\ chapter_pause = 0 => \A i \in 1..Len(t) : ~IsPause(t[i])

\* C6 witness: a finished run with a 1.0 s pause whose first Section is a
\* title without a pause before it and whose later title has one, of
\* 24000 samples, directly before the title's audio.
C6_Witness ==
    LET t == Cat(all_audio_chunks)
    IN  /\ pc = "done" /\ chapter_pause = 1000
        /\ IsTitle(0) /\ Succeeded(0, 0)
        /\ Positions(t, "pause_before", 0) = {}
        /\ \E s \in SectionIdxs : \E i \in Positions(t, "pause_before", s) :
              /\ s > 0 /\ t[i].n = 24000
              /\ i + 1 \in Positions(t, "title", s)

\* The run is past the flush after the loop.
PastLastFlush == pc \in {"final", "stats", "done"}

\* The flush after the loop happened.
LastFlushed ==
    \E i \in 1..Len(flush_log) : flush_log[i].at = Len(sections)

\* The units still to be flushed.
Unflushed ==
    IF PastLastFlush THEN <<>> ELSE Cat(current_chapter_audio)

\* C7: in per-chapter topology the flushed chapter buffers, concatenated
\* in flush order (followed, during the run, by the buffer in progress),
\* are exactly the single buffer the single-output topology accumulates
\* from the same Sections, outcomes and pause; after the run every unit
\* is in exactly one chapter file, each file holds its buffer, and the
\* total samples are equal.
C7_ChaptersPartitionSingleBuffer ==
    /\ (prog = "app" /\ ~split_chapters /\ pc \in {"stats", "done"}
           /\ all_audio_chunks # <<>>) =>
          /\ flush_log = <<>>
          /\ \A f \in disk : f.audio = Cat(all_audio_chunks)
          /\ Cardinality(disk) = 1
    /\ (prog = "app" /\ split_chapters) =>
        /\ FlushedCat(flush_log) \o Unflushed = Cat(all_audio_chunks)
        /\ Samples(FlushedCat(flush_log)) + Samples(Unflushed)
               = Samples(Cat(all_audio_chunks))
        /\ Len(chapter_files) = Len(flush_log)
        /\ \A i, j \in 1..Len(chapter_files) :
              i # j => chapter_files[i] # chapter_files[j]
        /\ \A i \in 1..Len(flush_log) :
              \E f \in disk : /\ f.name = chapter_files[i]
                              /\ f.audio = flush_log[i].audio
        /\ Cardinality(disk) = Len(flush_log)

\* C7 witness: a finished per-chapter run with pauses and a failed call
\* that wrote two chapter files.
C7_Witness ==
    /\ prog = "app" /\ split_chapters /\ pc = "done" /\ ret = "True"
    /\ chapter_pause > 0 /\ SomeFailure
    /\ Len(flush_log) = 2
    /\ \E i \in 1..Len(flush_log[2].audio) : IsPause(flush_log[2].audio[i])

\* The number of title Sections among the first i Sections.
RECURSIVE TitlesBefore(_)
TitlesBefore(i) ==
    IF i = 0 THEN 0
    ELSE TitlesBefore(i - 1) + (IF sections[i].is_chapter_title THEN 1 ELSE 0)

\* The flushes made when the loop was at Section index a.
FlushesAt(a) == {i \in 1..Len(flush_log) : flush_log[i].at = a}

\* C8 (as claimed): in per-chapter topology a buffer is flushed only when
\* a chapter title is reached, every title after the first flushes the
\* buffer in progress, and the final buffer is flushed exactly once after
\* the last Section, unconditionally.
C8_FlushAtEveryNextTitle ==
    (prog = "app" /\ split_chapters) =>
        /\ \A i \in 1..Len(flush_log) :
              \/ flush_log[i].at = Len(sections)
              \/ IsTitle(flush_log[i].at)
        /\ (pc = "pause_before" /\ current_chapter > 1)
               => Cardinality(FlushesAt(section_idx)) = 1
        /\ (PastLastFlush /\ SomeSuccess)
               => Cardinality(FlushesAt(Len(sections))) = 1

\* C8 (amended): in per-chapter topology a buffer is flushed only when a
\* chapter title is reached or after the last Section; the flush at a
\* title happens, once, exactly when the title is not the first title and
\* the buffer in progress is not empty, and it empties the buffer; the
\* flush after the last Section happens, once, exactly when the final
\* buffer is not empty.  No flushed buffer is empty.
C8_FlushAtNextTitleIfNonEmpty ==
    (prog = "app" /\ split_chapters) =>
        /\ \A i \in 1..Len(flush_log) :
              /\ \/ flush_log[i].at = Len(sections)
                 \/ IsTitle(flush_log[i].at)
              /\ flush_log[i].audio # <<>>
              /\ Cardinality(FlushesAt(flush_log[i].at)) = 1
              /\ flush_log[i].at < Len(sections)
                     => TitlesBefore(flush_log[i].at) >= 1
        /\ pc = "pause_before" =>
              IF FlushesAt(section_idx) # {}
              THEN current_chapter > 1 /\ current_chapter_audio = <<>>
              ELSE current_chapter = 1 \/ current_chapter_audio = <<>>
        /\ PastLastFlush =>
              (FlushesAt(Len(sections)) # {} <=> current_chapter_audio # <<>>)
        /\ ~PastLastFlush => FlushesAt(Len(sections)) = {}

\* C8 witness: a finished per-chapter run that flushed a chapter at a
\* title, skipped the flush of an empty chapter buffer at the end and
\* still had audio.
C8_Witness ==
    /\ prog = "app" /\ split_chapters /\ pc = "done" /\ SomeSuccess
    /\ \E i \in 1..Len(flush_log) : flush_log[i].at < Len(sections)
    /\ FlushesAt(Len(sections)) = {}
    /\ current_chapter_audio = <<>>

\* The index of the K-th title Section.
TitleIdx(K) ==
    CHOOSE s \in SectionIdxs : IsTitle(s) /\ TitlesBefore(s + 1) = K

\* current_chapter counts the title Sections reached so far.
ChapterCountsTitles ==
    prog = "app" =>
        current_chapter =
            IF pc \in {"pause_before", "title", "pause_after"}
            THEN TitlesBefore(section_idx + 1)
            ELSE TitlesBefore(section_idx)

\* C9 (as claimed): chapter numbering starts at 1 and grows by one per
\* title Section, the buffer written as chapter K is the one begun at the
\* K-th title Section, and every chapter file carries a number >= 1.
C9_ChapterNumbersFromOne ==
    /\ ChapterCountsTitles
    /\ \A i \in 1..Len(flush_log) :
          /\ flush_log[i].chapter >= 1
          /\ \A j \in 1..Len(flush_log[i].audio) :
                flush_log[i].audio[j].sec >= TitleIdx(flush_log[i].chapter)

\* C9 (amended): current_chapter starts at 0 and grows by one per title
\* Section reached, whether or not the title's narration succeeds; a
\* flush writes its buffer under the number of titles reached before it,
\* so a document without a title Section is written as chapter 0 and
\* every other chapter file carries a number >= 1; the buffer written as
\* chapter K >= 2 holds only units of the Sections from the K-th title up
\* to the next title, and chapter 1 holds those before the second title,
\* the content preceding the first title included.
C9_ChapterNumbersCountTitles ==
    /\ ChapterCountsTitles
    /\ \A i \in 1..Len(flush_log) :
          LET e == flush_log[i]
          IN  /\ e.chapter = TitlesBefore(e.at)
              /\ e.chapter >= 1 <=> TitlesBefore(Len(sections)) >= 1
              /\ \A j \in 1..Len(e.audio) :
                    /\ e.audio[j].sec < e.at
                    /\ e.chapter >= 2 => e.audio[j].sec >= TitleIdx(e.chapter)
              /\ \E f \in disk :
                    /\ f.name.stem = "chapter" /\ f.name.k = e.chapter
                    /\ f.audio = e.audio

\* C9 witness: a finished per-chapter run wrote chapters 1 and 2 although
\* the second title's narration failed, chapter 1 holding content that
\* precedes the first title.
C9_Witness ==
    /\ prog = "app" /\ split_chapters /\ pc = "done"
    /\ Len(flush_log) = 2
    /\ flush_log[1].chapter = 1 /\ flush_log[2].chapter = 2
    /\ ~IsTitle(0) /\ flush_log[1].audio[1].sec = 0
    /\ Failed(TitleIdx(2), 0)

\* The Encoder calls that did not succeed.
EncoderFailures ==
    {i \in 1..Len(encoder_log) : encoder_log[i].outcome # "ok"}

\* C10: when a requested transcode did not succeed, a run that returns
\* success has left that WAV on disk and reports that WAV as its output
\* file.
C10_EncoderFailureKeepsWav ==
    (prog = "app" /\ pc = "done" /\ ret = "True") =>
        \A i \in EncoderFailures :
            /\ \E f \in disk : f.name = encoder_log[i].input
            /\ \E j \in 1..Len(output_file) :
                  output_file[j] = encoder_log[i].input

\* ------------------------------------------------ smart_text_split
Range(s) == {s[i] : i \in DOMAIN s}

\* The paragraphs smart_text_split goes through: the pieces between the
\* blank lines, trimmed, the empty ones dropped.
Paragraphs(t) ==
    LET pieces == split_paragraphs(t, 1, 1)
    IN SelectSeq([i \in DOMAIN pieces |-> strip(pieces[i])],
                 LAMBDA p : p # <<>>)

\* The sentences of a paragraph, and of a text in reading order.
Sentences(p) == split_sentences(p, 1, 1)
TextSentences(t) ==
    LET ps == Paragraphs(t)
    IN Cat([i \in DOMAIN ps |-> Sentences(ps[i])])

\* smart_text_split(text, max_length) has returned its Chunks in result.
SplitReturned == pc = "returned"

NoLongSentence ==
    \A s \in Range(TextSentences(text)) : Len(s) <= max_length

\* C11: when every sentence of the text is at most max_length characters
\* long, every Chunk smart_text_split returns is at most max_length
\* characters long.
C11_ChunksWithinMaxLength ==
    (SplitReturned /\ NoLongSentence) =>
        \A i \in DOMAIN result : Len(result[i]) <= max_length

\* A paragraph longer than max_length was cut into several Chunks, one
\* of them two sentences joined to exactly max_length characters.
C11_Witness ==
    /\ SplitReturned /\ NoLongSentence
    /\ \E p \in Range(Paragraphs(text)) : Len(p) > max_length
    /\ Len(result) >= 2
    /\ \E i \in DOMAIN result :
           Len(result[i]) = max_length /\ Len(Sentences(result[i])) >= 2

\* " ".join(chunks).
RECURSIVE Joined(_)
Joined(chunks) ==
    IF chunks = <<>> THEN <<>>
    ELSE IF Len(chunks) = 1 THEN Head(chunks)
    ELSE Head(chunks) \o <<" ">> \o Joined(Tail(chunks))

\* Every run of whitespace but a trailing one replaced by one space.
RECURSIVE Squeezed(_)
Squeezed(t) ==
    IF t = <<>> THEN <<>>
    ELSE IF ~IsSpace(Head(t)) THEN << Head(t) >> \o Squeezed(Tail(t))
    ELSE IF Len(t) > 1 /\ ~IsSpace(t[2]) THEN <<" ">> \o Squeezed(Tail(t))
    ELSE Squeezed(Tail(t))

\* Whitespace normalization: runs of whitespace become one space, and
\* the whitespace at both ends goes.
Normalized(t) == strip(Squeezed(t))

\* The sentences of the Chunks, Chunk after Chunk.
ChunkSentences(chunks) ==
    Cat([i \in DOMAIN chunks |-> Sentences(chunks[i])])

\* C12: the Chunks smart_text_split returns, joined by single spaces,
\* are the text up to whitespace normalization (no character added,
\* removed or reordered), and the sentences of the Chunks, Chunk after
\* Chunk, are the sentences of the text in order, each whole in one Chunk.
C12_ChunksReproduceText ==
    SplitReturned =>
        /\ Normalized(Joined(result)) = Normalized(text)
        /\ ChunkSentences(result) = TextSentences(text)

\* Two paragraphs, one of them cut between its sentences, and whitespace
\* that the Chunks do not keep.
C12_Witness ==
    /\ SplitReturned
    /\ Len(Paragraphs(text)) >= 2
    /\ \E p \in Range(Paragraphs(text)) :
           Len(p) > max_length /\ Len(Sentences(p)) >= 2
    /\ Len(result) >= 3
    /\ Joined(result) # text

\* Longer than the max_length of the call.
TooLong(s) == Len(s) > max_length

\* C13: a sentence longer than max_length is a Chunk of its own, whole
\* and not merged with its neighbours, and every returned Chunk longer
\* than max_length is exactly one sentence: the over-long sentences of
\* the text and the over-long Chunks are the same sequence, and a Chunk
\* holding an over-long sentence holds nothing else.
C13_LongSentenceOwnChunk ==
    SplitReturned =>
        /\ SelectSeq(result, TooLong) = SelectSeq(TextSentences(text), TooLong)
        /\ \A i \in DOMAIN result :
               (\E s \in Range(Sentences(result[i])) : TooLong(s)) =>
                   Sentences(result[i]) = << result[i] >>

\* An over-long sentence between two short sentences of one paragraph,
\* returned as the Chunk between the Chunks of its neighbours.
C13_Witness ==
    /\ SplitReturned
    /\ \E p \in Range(Paragraphs(text)) :
           /\ Len(Sentences(p)) = 3
           /\ ~TooLong(Sentences(p)[1])
           /\ TooLong(Sentences(p)[2])
           /\ ~TooLong(Sentences(p)[3])
           /\ result = Sentences(p)

\* ------------------------------------------------- detect_chapters
\* detect_chapters(text) has returned its Sections in result.
Detected == pc = "detected"

TextLines == split_lines(text, 1, 1)
NoChapterLine == chapter_indices(TextLines) = <<>>

\* C14: for a document none of whose lines matches a chapter pattern,
\* detect_chapters returns exactly one Section, not a title, whose text
\* is the whole document.
C14_NoTitleWholeDocument ==
    (Detected /\ NoChapterLine) =>
        /\ Len(result) = 1
        /\ ~result[1].is_chapter_title
        /\ result[1].text = text

\* A document of several lines with blank lines and a line that only
\* looks like a heading, returned as it is.
C14_Witness ==
    /\ Detected /\ NoChapterLine
    /\ Len(TextLines) >= 3
    /\ \E i \in DOMAIN TextLines : TextLines[i] = <<"1", ".">>
    /\ strip(text) # text
    /\ result = << Section(text, FALSE) >>

\* The lines of a text that are not empty once trimmed, trimmed, in order.
NonBlankLines(t) ==
    LET lines == split_lines(t, 1, 1)
    IN SelectSeq([i \in DOMAIN lines |-> strip(lines[i])],
                 LAMBDA l : l # <<>>)

\* The non-blank lines of the Sections, Section after Section.
SectionLines(secs) ==
    Cat([i \in DOMAIN secs |-> NonBlankLines(secs[i].text)])

IsTitleSection(s) == s.is_chapter_title

\* C15: when some line matches a chapter pattern, the Sections
\* detect_chapters returns partition the document's lines in order: the
\* non-blank lines of the Sections, Section after Section, are the
\* non-blank lines of the document; a title Section is one trimmed line,
\* and the title Sections are the matching lines in order; no content
\* Section directly follows another, so each title is followed by at
\* most one content Section.
C15_SectionsPartitionLines ==
    (Detected /\ ~NoChapterLine) =>
        /\ SectionLines(result) = NonBlankLines(text)
        /\ \A i \in DOMAIN result :
               IsTitleSection(result[i]) =>
                   NonBlankLines(result[i].text) = << result[i].text >>
        /\ SelectSeq(result, IsTitleSection)
               = [i \in DOMAIN SelectSeq(NonBlankLines(text), is_chapter_line)
                    |-> Section(SelectSeq(NonBlankLines(text),
                                          is_chapter_line)[i], TRUE)]
        /\ \A i \in 1..(Len(result) - 1) :
               IsTitleSection(result[i]) \/ IsTitleSection(result[i + 1])

\* 'Chapter 1\nText A\n\nChapter 2\nText B' gives title, content, title,
\* content.
C15_Witness ==
    /\ Detected
    /\ text = ExampleDocument
    /\ result = << Section(<<"C", "h", "a", "p", "t", "e", "r", " ", "1">>, TRUE),
                   Section(<<"A">>, FALSE),
                   Section(<<"C", "h", "a", "p", "t", "e", "r", " ", "2">>, TRUE),
                   Section(<<"B">>, FALSE) >>

\* The document is empty once trimmed: empty, or only whitespace and
\* blank lines.
BlankDocument == strip(text) = <<>>

\* C16 as stated: for every document, the empty and the blank ones
\* included, no Section detect_chapters returns has a text that is empty
\* after trimming.
C16_NoEmptySection ==
    Detected => \A i \in DOMAIN result : strip(result[i].text) # <<>>

\* C16, amended: no Section detect_chapters returns for a document that
\* is not blank has a text that is empty after trimming (blank text
\* before a title and blank chapter content are dropped); a blank
\* document comes back whole, as one content Section.
C16_NoEmptySectionUnlessBlankDocument ==
    Detected =>
        /\ ~BlankDocument =>
               \A i \in DOMAIN result : strip(result[i].text) # <<>>
        /\ BlankDocument => result = << Section(text, FALSE) >>

\* Blank text before the first title and blank content between two
\* titles, both dropped: only the two titles are returned.
C16_Witness ==
    /\ Detected
    /\ Len(TextLines) >= 4
    /\ chapter_indices(TextLines) = <<1, 3>>
    /\ Len(result) = 2
    /\ IsTitleSection(result[1]) /\ IsTitleSection(result[2])
    /\ \E i \in DOMAIN TextLines : TextLines[i] = <<" ">>

\* ------------------------------------------ create_audiobook on a text
\* The Narrator calls made for the Section at index s of the loop.
SectionCalls(s) ==
    {i \in DOMAIN narrator_log : narrator_log[i].sec = s}

\* Section number i of detect_chapters(text) has a text that is empty or
\* only whitespace.
BlankSection(i) == strip(result[i].text) = <<>>

\* C17: smart_text_split returns no Chunk for a text that is empty or
\* only whitespace, whatever max_length is, so create_audiobook makes no
\* Narrator call for a content Section with such a text.
C17_BlankTextNoChunkNoCall ==
    \A i \in DOMAIN result :
        (i \in DOMAIN sections /\ BlankSection(i)) =>
            /\ \A m \in (1..MaxLength) \cup {MAX_CHUNK_LENGTH} :
                   smart_text_split(result[i].text, m) = <<>>
            /\ sections[i].n_chunks = 0
            /\ SectionCalls(i - 1) = {}

\* A document of blank lines only went through the loop: one Section,
\* no Chunk, no Narrator call.
C17_Witness ==
    /\ prog = "app"
    /\ Len(text) >= 2 /\ BlankDocument
    /\ Len(result) = 1 /\ BlankSection(1)
    /\ section_idx = Len(sections)
    /\ total_chunks = 0
    /\ narrator_log = <<>>

\* Every content Section of the document whose Chunks are its paragraphs
\* (no paragraph is longer than MAX_CHUNK_LENGTH).
ChunksAreParagraphs ==
    \A i \in DOMAIN result :
        ~IsTitleSection(result[i]) =>
            smart_text_split(result[i].text, MAX_CHUNK_LENGTH)
                = Paragraphs(result[i].text)

\* Segments j and j + 1 of tensor t are the audio of two paragraphs of
\* one content Section.
AdjacentParagraphs(t, j) ==
    /\ t[j].kind = "chunk" /\ t[j + 1].kind = "chunk"
    /\ t[j].sec = t[j + 1].sec

\* C18: with chapter_pause > 0, the audio of two paragraphs of a content
\* Section is never adjacent in the audiobook: a pause of chapter_pause
\* seconds lies between them.
C18_PauseBetweenParagraphs ==
    (prog = "app" /\ chapter_pause > 0 /\ ChunksAreParagraphs) =>
        LET t == Cat(all_audio_chunks)
        IN \A j \in 1..(Len(t) - 1) : ~AdjacentParagraphs(t, j)

\* C19: a run with the default options (split_chapters, convert_mp3) on
\* a document without a chapter line that returned True has left an
\* audio file at the requested output path (the WAV, or the MP3 made of
\* it).
C19_DefaultRunWritesOutputPath ==
    (/\ prog = "app" /\ split_chapters /\ convert_mp3
     /\ NoChapterLine
     /\ pc = "done" /\ ret = "True") =>
        \E f \in disk : f.name \in {output_path, output_mp3}

\* ------------------------------------------- single-output topology
\* The audio of every successful Narrator call so far.
NarratedAudio ==
    {wav_audio(IF narrator_log[i].chk = 0 THEN "title" ELSE "chunk",
               narrator_log[i].sec, narrator_log[i].chk)[1] :
        i \in {j \in DOMAIN narrator_log : narrator_log[j].outcome # "fail"}}

\* The file a single-output run leaves: the MP3 if the transcode was
\* asked for and succeeded, the WAV otherwise.
FinalFileName ==
    IF convert_mp3 /\ encoder_log # <<>>
           /\ encoder_log[Len(encoder_log)].outcome = "ok"
    THEN output_mp3 ELSE output_path

\* C20: with split_chapters = false no buffer is flushed and no chapter
\* file is written at any title (nothing is on disk while the loop
\* runs), the chapter buffer stays empty and every narrated unit is in
\* the one buffer (or in the Section being assembled), and a run that
\* returns True leaves exactly one file, holding that buffer: the MP3 if
\* the transcode succeeded, otherwise the WAV.
C20_SingleOutputOneBufferOneFile ==
    (prog = "app" /\ ~split_chapters) =>
        /\ flush_log = <<>> /\ chapter_files = <<>>
        /\ \A f \in disk : f.name.stem # "chapter"
        /\ pc \notin {"stats", "done"} => disk = {}
        /\ current_chapter_audio = <<>>
        /\ NarratedAudio \subseteq
               Range(Cat(all_audio_chunks)) \cup Range(Cat(section_audio_chunks))
        /\ (pc = "done" /\ ret = "True") =>
               disk = {[name |-> FinalFileName,
                        audio |-> Cat(all_audio_chunks)]}

\* A single-output run over two chapters with pauses returned True and
\* left the MP3 alone on disk.
C20_Witness ==
    /\ prog = "app" /\ ~split_chapters /\ convert_mp3
    /\ pc = "done" /\ ret = "True"
    /\ chapter_pause > 0
    /\ current_chapter = 2
    /\ \E i \in 1..Len(Cat(all_audio_chunks)) :
           Cat(all_audio_chunks)[i].kind = "pause_before"
    /\ disk = {[name |-> output_mp3, audio |-> Cat(all_audio_chunks)]}

\* ------------------------------------------------- main to the result
\* The document or the voice reference named does not exist, or the
\* document cannot be read, or it is empty (or holds only whitespace).
InputError ==
    \/ args.document \in {"missing", "unreadable"}
    \/ args.voice = "missing"
    \/ BlankDocument

\* C21: when the document or a given voice reference does not exist, or
\* the document is unreadable or empty, create_audiobook reports failure
\* and nothing else: the Narrator is never called, no file is written and
\* the run ends returning False.
C21_InputErrorNoProcessing ==
    (prog = "app" /\ args.max_chunk_length = <<>> /\ InputError) =>
        /\ narrator_log = <<>>
        /\ disk = {} /\ flush_log = <<>> /\ chapter_files = <<>>
        /\ output_file = <<>>
        /\ ret \in {"running", "False"}
        /\ pc = "done" => ret = "False"

\* A run on an existing, empty document ended: False, no call, no file.
C21_Witness ==
    /\ prog = "app" /\ args = Args("ok", "ok", <<>>)
    /\ text = <<>>
    /\ pc = "done" /\ ret = "False"
    /\ narrator_log = <<>> /\ disk = {}

\* The number of Narrator calls that failed.
FailedCalls ==
    Cardinality({i \in DOMAIN narrator_log : narrator_log[i].outcome = "fail"})

\* C22: at the end of a run the statistics report a skipped-units count
\* that equals the number of Narrator calls that failed: one of the
\* numbers reported is that count.
C22_SkippedUnitsReported ==
    (prog = "app" /\ pc = "done" /\ ret = "True") =>
        \E field \in DOMAIN printed_statistics :
            printed_statistics[field] = FailedCalls

\* C23: a run configured with a max_chunk_length is accepted, and every
\* content Section is split with that value.
C23_ConfiguredMaxChunkLength ==
    (prog = "app" /\ args.max_chunk_length # <<>>) =>
        /\ ret # "SystemExit"
        /\ \A i \in DOMAIN sections :
               ~sections[i].is_chapter_title =>
                   sections[i].n_chunks =
                       Len(smart_text_split(result[i].text,
                                            args.max_chunk_length[1]))

\* ------------------------------------------------ per-chapter topology
\* The AudioUnits held in the in-memory buffers.
HeldUnits ==
    Range(Cat(all_audio_chunks)) \cup Range(Cat(current_chapter_audio))
        \cup Range(Cat(section_audio_chunks))

\* C24: in per-chapter topology, once a chapter buffer has been flushed
\* to its file none of its units is held in any in-memory buffer.
C24_FlushedUnitsReleased ==
    (prog = "app" /\ split_chapters) =>
        \A k \in DOMAIN flush_log :
            Range(flush_log[k].audio) \cap HeldUnits = {}

\* C25: the total duration a run reports is the number of samples written
\* to the output (narrated titles, narrated Chunks and pauses) over the
\* sample rate; both sides are counted in samples here.
C25_ReportedDurationIsOutputDuration ==
    (prog = "app" /\ pc = "done" /\ ret = "True") =>
        printed_statistics.total_duration = Samples(Cat(all_audio_chunks))

\* ------------------------------------------------- the Narrator calls
\* The units of Section number i (counted from 1) in document order: the
\* title, or the Chunks 1..n_chunks.
SectionUnits(i) ==
    IF sections[i].is_chapter_title THEN << [sec |-> i - 1, chk |-> 0] >>
    ELSE [k \in 1..sections[i].n_chunks |-> [sec |-> i - 1, chk |-> k]]

\* The units of the document in document order.
DocumentUnits == Cat([i \in DOMAIN sections |-> SectionUnits(i)])

\* The loop over the Sections has ended.
LoopEnded == section_idx = Len(sections) /\ pc \in {"loop", "final", "stats", "done"}

\* C26: create_audiobook calls the Narrator once for each title Section
\* and once for each Chunk, in document order and with no retry: at
\* every point of the run the calls made so far are the first units of
\* the document, one call each, and when the loop has ended they are all
\* the units, as many as title Sections plus Chunks.
C26_OneCallPerUnitInOrder ==
    prog = "app" =>
        /\ Len(narrator_log) <= Len(DocumentUnits)
        /\ \A i \in DOMAIN narrator_log :
               /\ narrator_log[i].sec = DocumentUnits[i].sec
               /\ narrator_log[i].chk = DocumentUnits[i].chk
        /\ LoopEnded =>
               /\ Len(narrator_log) = Len(DocumentUnits)
               /\ Len(narrator_log) = chapter_count + total_chunks

\* A run over two titles and a content Section of two Chunks ended, a
\* title and a Chunk having failed: four calls.
C26_Witness ==
    /\ prog = "app" /\ pc = "done"
    /\ chapter_count = 2
    /\ Len(narrator_log) >= 4
    /\ \E i, j \in DOMAIN narrator_log :
           /\ narrator_log[i].chk = 0 /\ narrator_log[i].outcome = "fail"
           /\ narrator_log[j].chk = 1 /\ narrator_log[j].outcome = "fail"
           /\ j < Len(narrator_log)

\* ------------------------------------------- smart_text_split, packing
\* The number of sentences of the first j texts of a sequence of texts.
SentencesUpTo(texts, j) ==
    Len(Cat([k \in 1..j |-> Sentences(texts[k])]))

\* The paragraph of the text that holds its sentence number n.
ParagraphOf(n) ==
    Min({j \in DOMAIN Paragraphs(text) :
             SentencesUpTo(Paragraphs(text), j) >= n})

\* The paragraph the Chunk number i comes from: that of its first
\* sentence.
ChunkParagraph(i) == ParagraphOf(SentencesUpTo(result, i - 1) + 1)

\* C27: smart_text_split packs the sentences of a paragraph greedily: a
\* Chunk is closed only when the next sentence, joined with a space,
\* would not fit, so two consecutive Chunks of one paragraph satisfy
\* len(first) + 1 + len(first sentence of second) > max_length; and no
\* Chunk returned is empty.
C27_GreedyPacking ==
    SplitReturned =>
        /\ \A i \in 1..(Len(result) - 1) :
               ChunkParagraph(i) = ChunkParagraph(i + 1) =>
                   Len(result[i]) + 1 + Len(Sentences(result[i + 1])[1])
                       > max_length
        /\ \A i \in DOMAIN result : result[i] # <<>>

\* A paragraph of three sentences cut in two Chunks, the first holding
\* two sentences, next to another paragraph.
C27_Witness ==
    /\ SplitReturned
    /\ Len(result) >= 2
    /\ ChunkParagraph(1) = ChunkParagraph(2)
    /\ Len(Sentences(result[1])) = 2
    /\ Len(result[1]) <= max_length
    /\ Len(result[1]) + 1 + Len(Sentences(result[2])[1]) > max_length

\* ------------------------------------------ detect_chapters, first match
\* The lines of the document, counted from 0, that match some pattern
\* once trimmed, whatever the case of their letters.
MatchingLines ==
    {i \in 0..(Len(TextLines) - 1) : is_chapter_line(TextLines[i + 1])}

TitleSections == SelectSeq(result, IsTitleSection)

\* C28: every line is tested trimmed and case-insensitively against the
\* ordered pattern list and the first matching pattern wins: a line that
\* matches several patterns is recorded in chapter_indices exactly once
\* and yields exactly one title Section, so the number of title Sections
\* is the number of matching lines.
C28_FirstMatchingPatternWins ==
    Detected =>
        /\ Len(chapter_indices(TextLines)) = Cardinality(MatchingLines)
        /\ \A i \in MatchingLines :
               Cardinality({k \in DOMAIN chapter_indices(TextLines) :
                                chapter_indices(TextLines)[k] = i}) = 1
        /\ Len(TitleSections) = Cardinality(MatchingLines)
        /\ \A k \in DOMAIN TitleSections :
               TitleSections[k].text
                   = strip(TextLines[chapter_indices(TextLines)[k] + 1])

\* An indented line that matches two patterns of the list ('Chapter 1'
\* matches both 'Chapter' and 'CHAPTER' when case is ignored), in a
\* document of two matching lines.
C28_Witness ==
    /\ Detected
    /\ Cardinality(MatchingLines) = 2
    /\ Len(TitleSections) = 2
    /\ \E i \in MatchingLines :
           /\ Cardinality(matching_patterns(TextLines[i + 1])) >= 2
           /\ Head(TextLines[i + 1]) = " "

\* ------------------------------------------------ the chapter buffer
\* The index of the title Section whose handling has just ended: the
\* loop is back at its head and the Section before is a chapter title.
TitleHandled ==
    /\ prog = "app" /\ pc = "loop"
    /\ section_idx >= 1
    /\ sections[section_idx].is_chapter_title

\* The provenance segments the active chapter buffer holds.
BufferSegments == Range(Cat(current_chapter_audio))

\* C29: in per-chapter topology a new buffer begins at each chapter
\* title: right after a title other than the first has been handled,
\* the active chapter buffer holds no audio of a Section that precedes
\* that title.
C29_NewBufferAtTitle ==
    (split_chapters /\ TitleHandled /\ current_chapter > 1) =>
        \A seg \in BufferSegments : seg.sec >= section_idx - 1

\* A second title handled after a first chapter that had audio: the
\* buffer holds the title's units only.
C29_Witness ==
    /\ split_chapters /\ TitleHandled /\ current_chapter = 2
    /\ flush_log # <<>>
    /\ BufferSegments # {}
    /\ \A seg \in BufferSegments : seg.sec = section_idx - 1

\* --------------------------------- content before the first title
HasTitle == \E i \in DOMAIN sections : sections[i].is_chapter_title

\* The audio narrated so far for the Sections before the first title.
PreambleSegments ==
    {seg \in Range(Cat(all_audio_chunks)) :
         \A i \in 1..(seg.sec + 1) : ~sections[i].is_chapter_title}

\* The segments written so far under the chapter number k.
ChapterSegments(k) ==
    UNION {Range(flush_log[n].audio) :
               n \in {m \in DOMAIN flush_log : flush_log[m].chapter = k}}

ChapterFiles(k) ==
    {f \in disk : f.name.stem = "chapter" /\ f.name.k = k}

\* C30: in per-chapter topology the content before the first chapter
\* title is not written as a file of its own: it is still in the active
\* buffer when the first title is reached and it is written in the
\* chapter 1 file, no chapter 0 file being written for a document that
\* has a title; a document without any title is written as chapter 0,
\* which holds the whole document.
C30_PreambleInChapterOne ==
    (prog = "app" /\ split_chapters) =>
        /\ HasTitle =>
              /\ ChapterFiles(0) = {}
              /\ \A n \in DOMAIN flush_log : flush_log[n].chapter >= 1
              /\ \A n \in DOMAIN flush_log :
                     flush_log[n].chapter # 1 =>
                         Range(flush_log[n].audio) \cap PreambleSegments = {}
              /\ ChapterSegments(1) = {} =>
                     PreambleSegments \subseteq BufferSegments
              /\ pc \in {"final", "stats", "done"} =>
                     PreambleSegments \subseteq ChapterSegments(1)
        /\ ~HasTitle =>
              /\ \A n \in DOMAIN flush_log :
                     /\ flush_log[n].chapter = 0
                     /\ flush_log[n].audio = Cat(all_audio_chunks)
              /\ (pc \in {"final", "stats", "done"}
                      /\ all_audio_chunks # <<>>) =>
                     /\ Len(flush_log) = 1
                     /\ \E f \in ChapterFiles(0) :
                            f.audio = Cat(all_audio_chunks)

\* The first chapter has been written at the second title: its file
\* holds the content narrated before the first title and the first
\* title's own audio.
C30_Witness ==
    /\ prog = "app" /\ split_chapters /\ HasTitle
    /\ PreambleSegments # {}
    /\ Len(flush_log) = 1 /\ flush_log[1].chapter = 1
    /\ PreambleSegments \subseteq Range(flush_log[1].audio)
    /\ \E seg \in Range(flush_log[1].audio) : seg.kind = "title"
    /\ pc = "pause_before"

\* ------------------------------------- the pause before a chapter title
\* The pause put before the title Section of index s.
IsPauseBefore(seg, s) == seg.kind = "pause_before" /\ seg.sec = s

\* In the audio a, the audio of every title narrated comes right after
\* the pause put before that title, when that pause is due.
PauseWithItsTitle(a) ==
    \A j \in DOMAIN a :
        (a[j].kind = "title"
             /\ pause_before_due(a[j].sec, chapter_pause)) =>
            j > 1 /\ IsPauseBefore(a[j - 1], a[j].sec)

\* C31: in per-chapter topology the previous chapter is flushed before
\* the pause that precedes the new title is appended: the flush made at
\* a title holds no unit of that title's Section, the pause is stored in
\* the same chapter buffer as its title, and a chapter file holds only
\* pauses that precede titles of its own chapter, so none ends with the
\* pause of the next chapter's title.
C31_FlushBeforeTitlePause ==
    (prog = "app" /\ split_chapters) =>
        /\ PauseWithItsTitle(Cat(current_chapter_audio))
        /\ \A n \in DOMAIN flush_log :
               LET e == flush_log[n]
               IN  /\ PauseWithItsTitle(e.audio)
                   /\ \A j \in DOMAIN e.audio :
                          /\ e.audio[j].sec < e.at
                          /\ e.audio[j].kind = "pause_before" =>
                                 TitlesBefore(e.audio[j].sec + 1) = e.chapter
                   /\ \E f \in disk :
                          /\ f.name.stem = "chapter" /\ f.name.k = e.chapter
                          /\ f.audio = e.audio

\* Chapter 1 was flushed at the second title and ends with content; the
\* pause before the second title and the title are in the new buffer.
C31_Witness ==
    /\ prog = "app" /\ split_chapters /\ chapter_pause > 0
    /\ Len(flush_log) = 1 /\ flush_log[1].chapter = 1
    /\ flush_log[1].audio[Len(flush_log[1].audio)].kind = "chunk"
    /\ Len(Cat(current_chapter_audio)) >= 2
    /\ IsPauseBefore(Cat(current_chapter_audio)[1], flush_log[1].at)
    /\ Cat(current_chapter_audio)[2].kind = "title"

\* ---------------------------------------------- chapter file names
\* The chapter number a narrated segment is written under: the number
\* of titles reached when its Section is handled, the content before
\* the first title going with chapter 1.
ChapterOf(seg) ==
    IF ~HasTitle THEN 0
    ELSE IF TitlesBefore(seg.sec + 1) = 0 THEN 1
    ELSE TitlesBefore(seg.sec + 1)

FlushedChapters == {flush_log[n].chapter : n \in DOMAIN flush_log}

\* C32: within one per-chapter run the chapter numbers of the files
\* written are strictly increasing in flush order, so no two flushes
\* write the same file name and every chapter file written is still on
\* disk with the audio of its flush; a chapter whose buffer is empty
\* when the next title arrives writes no file and its number is skipped.
C32_ChapterNumbersIncrease ==
    (prog = "app" /\ split_chapters) =>
        /\ \A m, n \in DOMAIN flush_log :
               m < n => flush_log[m].chapter < flush_log[n].chapter
        /\ Len(chapter_files) = Len(flush_log)
        /\ \A n \in DOMAIN flush_log :
               LET e == flush_log[n]
               IN  /\ e.audio # <<>>
                   /\ chapter_files[n].stem = "chapter"
                   /\ chapter_files[n].k = e.chapter
                   /\ \E f \in disk :
                          f.name = chapter_files[n] /\ f.audio = e.audio
        /\ pc \in {"final", "stats", "done"} =>
               FlushedChapters
                   = {ChapterOf(seg) : seg \in Range(Cat(all_audio_chunks))}

\* A finished run of three titles wrote chapter 1 and chapter 3: the
\* second title's narration failed, its buffer was empty at the third
\* title and no chapter 2 file exists.
C32_Witness ==
    /\ prog = "app" /\ split_chapters /\ pc = "done"
    /\ current_chapter = 3
    /\ Len(flush_log) = 2
    /\ flush_log[1].chapter = 1 /\ flush_log[2].chapter = 3
    /\ ChapterFiles(2) = {}

\* ------------------------------------------------- the remote client
CallEnded == pc = "done"

\* The last status answer asks for nothing: not 200, or a message that
\* is neither 'process_completed' nor 'process_failed'.
PolledAgain ==
    /\ polls >= 1
    /\ \/ response.status_code = 500
       \/ /\ response.status_code = 200
          /\ response.msg \notin {"process_completed", "process_failed"}

LastStatus(msg) ==
    polls >= 1 /\ response.status_code = 200 /\ response.msg = msg

\* At most 180 polls; a call that ended returned bytes or raised; a
\* 'process_failed' status raises at once; a 'process_completed' status
\* without a usable file reference ends the polling with a raise; any
\* other status is polled again until the limit, where the call raises;
\* bytes are returned only after a completed status that names a file.
PollingOutcomes ==
    /\ polls <= MaxStatusPolls
    /\ IF CallEnded THEN returned.outcome \in {"return", "raise"}
       ELSE returned = Running
    /\ LastStatus("process_failed") =>
           CallEnded /\ returned.outcome = "raise"
    /\ (LastStatus("process_completed") /\ response.file = "none") =>
           CallEnded /\ returned.outcome = "raise"
    /\ PolledAgain =>
           IF polls < MaxStatusPolls THEN pc = "poll"
           ELSE CallEnded /\ returned.outcome = "raise"
    /\ returned.outcome = "return" =>
           LastStatus("process_completed") /\ response.file # "none"

\* Every call ends.
ClientTerminates == <>CallEnded

\* The bytes a call returned are not empty.
NoEmptyAudio ==
    returned.outcome = "return" => returned.content # <<>>

\* C33: generate_audio_gradio always terminates after at most 180 status
\* polls, with audio bytes returned or a failure raised: 'process_failed'
\* raises at once, 'process_completed' without a usable file reference
\* stops the polling and raises, other statuses are polled again until
\* the limit; and generate_audio never returns empty audio as a success.
C33_ClientTerminatesWithAudioOrFailure ==
    [](PollingOutcomes /\ NoEmptyAudio) /\ ClientTerminates

====
